---- MODULE Spec2Model ----
(***************************************************************************)
(* Model of the retail dashboard:                                          *)
(*   - the forecasting engine (runForecastingModel and the three           *)
(*     exponential-smoothing methods),                                     *)
(*   - the sales aggregator (processOrdersToSalesData),                    *)
(*   - the order feed loader (fetchDataFromUrl, normalizeOrder,            *)
(*     validateOrder),                                                     *)
(*   - the startup load of App (loadInitialData),                          *)
(*   - the analysis requests of the Forecaster component (runAnalysis),    *)
(*   - the support chat of the Chatbot component (handleSendMessage).      *)
(*                                                                         *)
(* Numbers of the forecasting engine are exact rationals <<n, d>> in       *)
(* lowest terms, d > 0, extended with the IEEE special values the code can *)
(* produce: <<0,0>> is NaN, <<1,0>> is +Infinity, <<-1,0>> is -Infinity.   *)
(* Binary rounding of doubles is not modelled.                             *)
(* Strings that the code cuts, splits, trims or matches are sequences of   *)
(* one-character strings.                                                  *)
(***************************************************************************)
EXTENDS Integers, Sequences, FiniteSets, TLC

VARIABLES
    fModel,      \* runForecastingModel: argument model
    fData,       \* runForecastingModel: argument data
    fPeriods,    \* runForecastingModel: argument periods
    fResult,     \* outcome of the call, NotRun before it
    orders,      \* processOrdersToSalesData: the order list under aggregation
    salesData,   \* outcome of the latest call on orders, NotRun before it
    firstSalesData, \* outcome of the first call on orders
    salesMap,    \* the salesMap object built by the most recent call
    callLog,     \* the calls of processOrdersToSalesData made so far ("own" / "other")
    response,    \* fetchDataFromUrl: what the network yields for the URL
    fetchResult, \* outcome of fetchDataFromUrl, NotRun before it
    loadPc,      \* App: position of loadInitialData ("mount", "awaiting", "done")
    appOrders,   \* App: state orders
    appSalesData, \* App: state salesData
    isDataLoading, \* App: state isDataLoading
    dataError,   \* App: state dataError (Null or a message)
    fcSalesData, \* Forecaster: prop salesData
    selectedProduct, \* Forecaster: state selectedProduct
    selectedModel, \* Forecaster: state selectedModel
    forecastResult, \* Forecaster: state forecastResult (Null or a ForecastResult)
    isLoading,   \* Forecaster: state isLoading
    error,       \* Forecaster: state error (Null or a message)
    inFlight,    \* Forecaster: the runAnalysis calls awaiting getForecastAnalysis
    selections,  \* Forecaster: number of selection changes made by the user
    messages,    \* Chatbot: state messages
    userInput,   \* Chatbot: state userInput
    chatLoading, \* Chatbot: state isLoading
    chatInFlight, \* Chatbot: the handleSendMessage calls awaiting the AI reply
    turns        \* Chatbot: number of submit events of the form so far

forecastVars == <<fModel, fData, fPeriods, fResult>>
aggVars == <<orders, salesData, firstSalesData, salesMap, callLog>>
fetchVars == <<response, fetchResult>>
appVars == <<loadPc, appOrders, appSalesData, isDataLoading, dataError>>
forecasterVars ==
    <<fcSalesData, selectedProduct, selectedModel, forecastResult, isLoading, error,
      inFlight, selections>>
chatVars == <<messages, userInput, chatLoading, chatInFlight, turns>>
uiVars == <<appVars, forecasterVars, chatVars>>
vars == <<forecastVars, aggVars, fetchVars, uiVars>>

NotRun == [kind |-> "notrun"]

\* the value null of a state that holds null or an object
Null == [kind |-> "null"]

(***************************************************************************)
(* Bounds of the model.                                                    *)
(***************************************************************************)
MaxLen == 3        \* longest freely chosen series
MaxPeriods == 2    \* largest forecast horizon
MaxExtra == 1      \* observations beyond two full seasons
MaxLinear == 4     \* longest exactly linear series
MaxOrders == 2     \* longest order list handed to the aggregator
MaxCalls == 3      \* calls of the aggregator in one run
MaxBatch == 2      \* longest fetched array
MaxSelections == 3 \* selection changes made by the user of the Forecaster
MaxTurns == 6      \* submit events of the chat form

(***************************************************************************)
(* JavaScript numbers.                                                     *)
(***************************************************************************)
Abs(n) == IF n < 0 THEN -n ELSE n

Sign(n) == IF n > 0 THEN 1 ELSE IF n < 0 THEN -1 ELSE 0

RECURSIVE GCD(_, _)
GCD(a, b) == IF b = 0 THEN a ELSE GCD(b, a % b)

Norm(n, d) ==
    IF d = 0 THEN <<Sign(n), 0>>
    ELSE LET g == GCD(Abs(n), d) IN <<n \div g, d \div g>>

Num(n) == <<n, 1>>
NaN == <<0, 0>>
Infinity == <<1, 0>>
IsFinite(x) == x[2] > 0
IsNaN(x) == x = NaN

Neg(x) == <<-x[1], x[2]>>

Add(x, y) ==
    IF IsFinite(x) /\ IsFinite(y)
    THEN LET g == GCD(x[2], y[2])
         IN Norm(x[1] * (y[2] \div g) + y[1] * (x[2] \div g), (x[2] \div g) * y[2])
    ELSE IF IsNaN(x) \/ IsNaN(y) THEN NaN
    ELSE IF IsFinite(y) THEN x
    ELSE IF IsFinite(x) THEN y
    ELSE IF x = y THEN x ELSE NaN

Sub(x, y) == Add(x, Neg(y))

Mul(x, y) ==
    IF IsFinite(x) /\ IsFinite(y)
    THEN LET g1 == GCD(Abs(x[1]), y[2])
             g2 == GCD(Abs(y[1]), x[2])
         IN Norm((x[1] \div g1) * (y[1] \div g2), (x[2] \div g2) * (y[2] \div g1))
    ELSE <<Sign(x[1]) * Sign(y[1]), 0>>

\* 1/x; a zero divisor is +0 (no computation of the model yields -0)
Recip(x) ==
    IF x[1] > 0 THEN <<x[2], x[1]>>
    ELSE IF x[1] < 0 THEN <<-x[2], -x[1]>>
    ELSE IF x[2] > 0 THEN Infinity
    ELSE NaN

Div(x, y) == Mul(x, Recip(y))

\* data[i] of a JavaScript array, 0-based; undefined past the end acts as NaN
At(data, i) == IF i < Len(data) THEN data[i + 1] ELSE NaN

Fill(periods, v) == [i \in 1..periods |-> v]

(***************************************************************************)
(* The forecasting engine.                                                 *)
(***************************************************************************)
SES == "Simple Exponential Smoothing"
HOLT == "Holt's Method (Trend Corrected)"
HOLT_WINTERS == "Holt-Winters (Trend & Seasonality)"
ForecastingModel == {SES, HOLT, HOLT_WINTERS}

DefaultAlpha == <<3, 10>>
DefaultBeta == <<1, 10>>
DefaultGamma == <<1, 10>>
SeasonLength == 12
MinSeasonalPoints == 24

Returned(v) == [kind |-> "return", value |-> v]
Thrown(msg) == [kind |-> "throw", error |-> msg]

\* SESStep with the two weights exchanged
SESStep_WeightsSwapped(alpha, x, prev) == Add(Mul(Sub(Num(1), alpha), x), Mul(alpha, prev))

\* one pass of the loop body: smoothed.push(alpha * data[i] + (1 - alpha) * smoothed[i - 1])
SESStep(alpha, x, prev) == Add(Mul(alpha, x), Mul(Sub(Num(1), alpha), prev))

\* the for loop over i = 1..data.length-1; st holds i and the smoothed array
RECURSIVE SESLoop(_, _)
SESLoop(data, st) ==
    IF st.i < Len(data)
    THEN SESLoop(data,
             [i |-> st.i + 1,
              smoothed |-> Append(st.smoothed,
                  SESStep(DefaultAlpha, At(data, st.i), At(st.smoothed, st.i - 1)))])
    ELSE st.smoothed

simpleExponentialSmoothing(data, periods) ==
    IF Len(data) = 0 THEN Fill(periods, Num(0))
    ELSE LET smoothed == SESLoop(data, [i |-> 1, smoothed |-> <<At(data, 0)>>])
             lastSmoothedValue == At(smoothed, Len(smoothed) - 1)
         IN Fill(periods, lastSmoothedValue)

\* HoltStep whose trend update reads the level after it was overwritten
HoltStep_TrendFromNewLevel(alpha, beta, x, st) ==
    LET level == Add(Mul(alpha, x), Mul(Sub(Num(1), alpha), Add(st.level, st.trend)))
        trend == Add(Mul(beta, Sub(level, level)), Mul(Sub(Num(1), beta), st.trend))
    IN [i |-> st.i + 1, level |-> level, trend |-> trend]

\* one pass of the smoothing loop of Holt's method on the pair (level, trend)
HoltStep(alpha, beta, x, st) ==
    LET lastLevel == st.level
        level == Add(Mul(alpha, x), Mul(Sub(Num(1), alpha), Add(lastLevel, st.trend)))
        trend == Add(Mul(beta, Sub(level, lastLevel)), Mul(Sub(Num(1), beta), st.trend))
    IN [i |-> st.i + 1, level |-> level, trend |-> trend]

\* the for loop over i = 1..data.length-1; st holds i, level and trend
RECURSIVE HoltLoop(_, _)
HoltLoop(data, st) ==
    IF st.i < Len(data)
    THEN HoltLoop(data, HoltStep(DefaultAlpha, DefaultBeta, At(data, st.i), st))
    ELSE st

\* holtsMethod with the guard data.length < 1 and the forecast loop i < periods
holtsMethod_GuardOffByOne(data, periods) ==
    IF Len(data) < 1 THEN simpleExponentialSmoothing(data, periods)
    ELSE LET st == HoltLoop(data, [i |-> 1, level |-> At(data, 0),
                                   trend |-> Sub(At(data, 1), At(data, 0))])
         IN [i \in 1..periods |-> Add(st.level, Mul(Num(i), st.trend))]

holtsMethod_LoopOffByOne(data, periods) ==
    IF Len(data) < 2 THEN simpleExponentialSmoothing(data, periods)
    ELSE LET st == HoltLoop(data, [i |-> 1, level |-> At(data, 0),
                                   trend |-> Sub(At(data, 1), At(data, 0))])
         IN [i \in 1..(periods - 1) |-> Add(st.level, Mul(Num(i), st.trend))]

holtsMethod(data, periods) ==
    IF Len(data) < 2 THEN simpleExponentialSmoothing(data, periods)
    ELSE LET st == HoltLoop(data, [i |-> 1, level |-> At(data, 0),
                                   trend |-> Sub(At(data, 1), At(data, 0))])
         IN [i \in 1..periods |-> Add(st.level, Mul(Num(i), st.trend))]

\* data.reduce((a, b) => a + b, 0), folded from the left; st holds the index and a
RECURSIVE SumLoop(_, _)
SumLoop(data, st) ==
    IF st.i < Len(data)
    THEN SumLoop(data, [i |-> st.i + 1, a |-> Add(st.a, At(data, st.i))])
    ELSE st.a

Sum(data) == SumLoop(data, [i |-> 0, a |-> Num(0)])

\* seasonal seed: data[i % data.length] / (sum(data) / data.length), i = 0..seasonLength-1
SeasonalSeed(data, seasonLength) ==
    [k \in 1..seasonLength |->
        Div(At(data, (k - 1) % Len(data)), Div(Sum(data), Num(Len(data))))]

HoltWintersStep(alpha, beta, gamma, x, seasonLength, st) ==
    LET lastLevel == st.level
        seasonIndex == st.i % seasonLength
        level == Add(Mul(alpha, Div(x, st.seasonal[seasonIndex + 1])),
                     Mul(Sub(Num(1), alpha), Add(lastLevel, st.trend)))
        trend == Add(Mul(beta, Sub(level, lastLevel)), Mul(Sub(Num(1), beta), st.trend))
        s == Add(Mul(gamma, Div(x, level)),
                 Mul(Sub(Num(1), gamma), st.seasonal[seasonIndex + 1]))
    IN [i |-> st.i + 1, level |-> level, trend |-> trend,
        seasonal |-> [st.seasonal EXCEPT ![seasonIndex + 1] = s]]

\* the for loop over i = 0..data.length-1; st holds i, level, trend and seasonal
RECURSIVE HoltWintersLoop(_, _, _)
HoltWintersLoop(data, seasonLength, st) ==
    IF st.i < Len(data)
    THEN HoltWintersLoop(data, seasonLength,
             HoltWintersStep(DefaultAlpha, DefaultBeta, DefaultGamma,
                             At(data, st.i), seasonLength, st))
    ELSE st

holtWintersMethod(data, periods, seasonLength) ==
    IF Len(data) < seasonLength THEN holtsMethod(data, periods)
    ELSE LET st == HoltWintersLoop(data, seasonLength,
                       [i |-> 0, level |-> At(data, 0), trend |-> Num(0),
                        seasonal |-> SeasonalSeed(data, seasonLength)])
         IN [i \in 1..periods |->
                Mul(Add(st.level, Mul(Num(i), st.trend)),
                    st.seasonal[((Len(data) + i - 1) % seasonLength) + 1])]

\* runForecastingModel whose Holt-Winters case lacks the 24-observation guard
runForecastingModel_NoSeasonGuard(model, data, periods) ==
    IF model = SES THEN Returned(simpleExponentialSmoothing(data, periods))
    ELSE IF model = HOLT THEN Returned(holtsMethod(data, periods))
    ELSE IF model = HOLT_WINTERS
    THEN Returned(holtWintersMethod(data, periods, SeasonLength))
    ELSE Thrown("Unknown forecasting model")

\* runForecastingModel whose default case runs SES instead of throwing
runForecastingModel_DefaultSES(model, data, periods) ==
    IF model = HOLT THEN Returned(holtsMethod(data, periods))
    ELSE IF model = HOLT_WINTERS
    THEN IF Len(data) < MinSeasonalPoints
         THEN Returned(holtsMethod(data, periods))
         ELSE Returned(holtWintersMethod(data, periods, SeasonLength))
    ELSE Returned(simpleExponentialSmoothing(data, periods))

runForecastingModel(model, data, periods) ==
    IF model = SES THEN Returned(simpleExponentialSmoothing(data, periods))
    ELSE IF model = HOLT THEN Returned(holtsMethod(data, periods))
    ELSE IF model = HOLT_WINTERS
    THEN IF Len(data) < MinSeasonalPoints
         THEN Returned(holtsMethod(data, periods))
         ELSE Returned(holtWintersMethod(data, periods, SeasonLength))
    ELSE Thrown("Unknown forecasting model")

\* the model whose formula computes what runForecastingModel returns: the case
\* taken by the switch and by the length guards of the methods
ModelRun(model, data) ==
    IF model = SES THEN SES
    ELSE IF model = HOLT \/ Len(data) < MinSeasonalPoints \/ Len(data) < SeasonLength
    THEN (IF Len(data) < 2 THEN SES ELSE HOLT)
    ELSE HOLT_WINTERS

(***************************************************************************)
(* Inputs of the forecasting engine.                                       *)
(***************************************************************************)
UnitValues == {0, 10, 11, 12}

\* identifiers that are no value of the ForecastingModel enum
UnknownModels == {"SES", "ARIMA"}

ModelInputs == ForecastingModel \cup UnknownModels

ToSeries(s) == [i \in 1..Len(s) |-> Num(s[i])]

ShortSeries == UNION {[1..n -> UnitValues] : n \in 0..MaxLen}

\* series around the two seasonal thresholds (12 and 24 observations)
LongLengths ==
    {SeasonLength, MinSeasonalPoints - 1, MinSeasonalPoints, MinSeasonalPoints + MaxExtra}

LongSeries == {[i \in 1..n |-> c] : n \in LongLengths, c \in UnitValues}

\* two seasons of a constant count, the first observation being 0
ZeroFirstSeries ==
    {[i \in 1..n |-> IF i = 1 THEN 0 ELSE c] :
        n \in MinSeasonalPoints..(MinSeasonalPoints + MaxExtra), c \in {10, 12}}

\* exactly linear series a, a + d, a + 2d, ...
LinearSeries ==
    {[i \in 1..n |-> a + (i - 1) * d] : n \in 2..MaxLinear, a \in {10, 40}, d \in {10, 1, -10}}

SeriesInputs == {ToSeries(s) : s \in ShortSeries \cup LongSeries \cup LinearSeries}

\* series given to the Holt-Winters model only
SeasonalInputs == {ToSeries(s) : s \in ZeroFirstSeries}

ForecastIdle ==
    /\ fModel = SES
    /\ fData = <<>>
    /\ fPeriods = 1
    /\ fResult = NotRun

AggIdle ==
    /\ orders = <<>>
    /\ salesData = NotRun
    /\ firstSalesData = NotRun
    /\ salesMap = <<>>
    /\ callLog = <<>>

FetchIdle ==
    /\ response = [net |-> "idle", ok |-> FALSE, body |-> [t |-> "null"]]
    /\ fetchResult = NotRun

\* App before its effect has run: the useState initial values (App.tsx:15-18)
AppIdle ==
    /\ loadPc = "mount"
    /\ appOrders = <<>>
    /\ appSalesData = <<>>
    /\ isDataLoading = TRUE
    /\ dataError = Null

\* Forecaster without sales data: the useState initial values (Forecaster.tsx:25-29)
ForecasterIdle ==
    /\ fcSalesData = <<>>
    /\ selectedProduct = <<>>
    /\ selectedModel = HOLT_WINTERS
    /\ forecastResult = Null
    /\ isLoading = FALSE
    /\ error = Null
    /\ inFlight = <<>>
    /\ selections = 0

\* Chatbot before its first effect: the useState initial values (part_000:11-13)
ChatIdle ==
    /\ messages = <<>>
    /\ userInput = <<>>
    /\ chatLoading = FALSE
    /\ chatInFlight = <<>>
    /\ turns = 0

UiIdle == AppIdle /\ ForecasterIdle /\ ChatIdle

InitForecast ==
    /\ \/ fModel \in ModelInputs /\ fData \in SeriesInputs
       \/ fModel = HOLT_WINTERS /\ fData \in SeasonalInputs
    /\ fPeriods \in 1..MaxPeriods
    /\ fResult = NotRun
    /\ AggIdle
    /\ FetchIdle
    /\ UiIdle

\* the caller invokes runForecastingModel(model, data, periods)
RunForecast ==
    /\ fResult = NotRun
    /\ fResult' = runForecastingModel(fModel, fData, fPeriods)
    /\ UNCHANGED <<fModel, fData, fPeriods>>
    /\ UNCHANGED <<aggVars, fetchVars, uiVars>>

NextForecast == RunForecast

SpecForecast == InitForecast /\ [][NextForecast]_vars

(***************************************************************************)
(* Strings: sequences of one-character strings.                            *)
(***************************************************************************)
Min(a, b) == IF a < b THEN a ELSE b

\* s.substring(0, n)
Substring0(s, n) == SubSeq(s, 1, Min(n, Len(s)))

\* s.split(sep) for a one-character separator; st holds i, the finished pieces
\* and the piece being read
RECURSIVE SplitLoop(_, _, _)
SplitLoop(s, sep, st) ==
    IF st.i > Len(s) THEN Append(st.pieces, st.cur)
    ELSE IF s[st.i] = sep
    THEN SplitLoop(s, sep, [i |-> st.i + 1, pieces |-> Append(st.pieces, st.cur), cur |-> <<>>])
    ELSE SplitLoop(s, sep, [i |-> st.i + 1, pieces |-> st.pieces, cur |-> Append(st.cur, s[st.i])])

Split(s, sep) == SplitLoop(s, sep, [i |-> 1, pieces |-> <<>>, cur |-> <<>>])

RemoveAt(s, i) == SubSeq(s, 1, i - 1) \o SubSeq(s, i + 1, Len(s))

\* element i (0-based) of a destructured array; undefined when absent
Undefined == [t |-> "undefined"]
Piece(pieces, i) == IF i < Len(pieces) THEN pieces[i + 1] ELSE Undefined

(***************************************************************************)
(* Orders.                                                                 *)
(***************************************************************************)
Processing == <<"P", "r", "o", "c", "e", "s", "s", "i", "n", "g">>
Shipped == <<"S", "h", "i", "p", "p", "e", "d">>
InTransit == <<"I", "n", " ", "T", "r", "a", "n", "s", "i", "t">>
Delivered == <<"D", "e", "l", "i", "v", "e", "r", "e", "d">>
Cancelled == <<"C", "a", "n", "c", "e", "l", "l", "e", "d">>
Returned_ == <<"R", "e", "t", "u", "r", "n", "e", "d">>
VALID_STATUSES == <<Processing, Shipped, InTransit, Delivered, Cancelled, Returned_>>

\* string values used by the inputs
Kitchen == <<"K", "i", "t", "c", "h", "e", "n">>
Jan15 == <<"2", "0", "2", "4", "-", "0", "1", "-", "1", "5">>
Jan20 == <<"2", "0", "2", "4", "-", "0", "1", "-", "2", "0">>
Feb03 == <<"2", "0", "2", "4", "-", "0", "2", "-", "0", "3">>
Mar01 == <<"2", "0", "2", "4", "-", "0", "3", "-", "0", "1">>
Feb03Time ==
    <<"2", "0", "2", "4", "-", "0", "2", "-", "0", "3",
      "T", "1", "0", ":", "0", "0", ":", "0", "0", "Z">>
Feb09Time ==
    <<"2", "0", "2", "4", "-", "0", "2", "-", "0", "9",
      "T", "0", "0", ":", "0", "0", ":", "0", "0", "Z">>
ThirtyDays == <<"3", "0", " ", "d", "a", "y", "s">>
Ann == <<"A", "n", "n">>
Bob == <<"B", "o", "b">>
OrderId1 == <<"o", "1">>
ShippedPadded == <<" ", "S", "h", "i", "p", "p", "e", "d", " ">>

(***************************************************************************)
(* The sales aggregator.                                                   *)
(***************************************************************************)
\* parseFloat(x.toFixed(2)): the nearest hundredth, ties away from zero
ToFixed2(x) ==
    IF ~IsFinite(x) THEN x
    ELSE Norm(Sign(x[1]) * ((200 * Abs(x[1]) + x[2]) \div (2 * x[2])), 100)

\* index of the entry of salesMap with this key, 0 when absent
KeyIndex(map, key) ==
    IF \E k \in DOMAIN map : map[k].key = key
    THEN CHOOSE k \in DOMAIN map : map[k].key = key
    ELSE 0

\* the body of order.items.forEach: lines 194-199
AccumulateItem(map, item, month) ==
    LET key == item.name \o <<"|">> \o month
        withKey == IF KeyIndex(map, key) = 0
                   THEN Append(map, [key |-> key, unitsSold |-> Num(0), prices |-> <<>>])
                   ELSE map
        k == KeyIndex(withKey, key)
    IN [withKey EXCEPT ![k] = [key |-> key,
                               unitsSold |-> Add(withKey[k].unitsSold, item.quantity),
                               prices |-> Append(withKey[k].prices, item.unitPrice)]]

RECURSIVE AccumulateItems(_, _, _)
AccumulateItems(st, items, month) ==
    IF st.i < Len(items)
    THEN AccumulateItems([i |-> st.i + 1, map |-> AccumulateItem(st.map, items[st.i + 1], month)],
                         items, month)
    ELSE st.map

\* AccumulateOrder that counts every order whatever its status
AccumulateOrder_AnyStatus(map, order) ==
    AccumulateItems([i |-> 0, map |-> map], order.items, Substring0(order.orderDate, 7))

\* the body of orders.forEach: lines 191-201
AccumulateOrder(map, order) ==
    IF order.status = Delivered \/ order.status = Shipped
    THEN AccumulateItems([i |-> 0, map |-> map], order.items, Substring0(order.orderDate, 7))
    ELSE map

RECURSIVE AccumulateOrders(_, _)
AccumulateOrders(st, os) ==
    IF st.i < Len(os)
    THEN AccumulateOrders([i |-> st.i + 1, map |-> AccumulateOrder(st.map, os[st.i + 1])], os)
    ELSE st.map

\* a salesMap that outlives the call (declared outside the function)
InitialSalesMap_Retained(previous) == previous

\* const salesMap = {}: every call starts from an empty object, whatever the
\* previous call built
InitialSalesMap(previous) == <<>>

\* lines 188-202: the salesMap after the forEach over orders
SalesMapAfter(previous, os) ==
    AccumulateOrders([i |-> 0, map |-> InitialSalesMap(previous)], os)

\* lines 204-214: one SalesRecord per entry, in insertion order
EmitRecord(entry) ==
    LET parts == Split(entry.key, "|")
        averagePrice == Div(Sum(entry.prices), Num(Len(entry.prices)))
    IN [productName |-> Piece(parts, 0),
        month |-> Piece(parts, 1),
        unitsSold |-> entry.unitsSold,
        price |-> ToFixed2(averagePrice)]

EmitRecords(map) == [k \in 1..Len(map) |-> EmitRecord(map[k])]

\* the value a call returns when no call preceded it
processOrdersToSalesData(os) == EmitRecords(SalesMapAfter(<<>>, os))

(***************************************************************************)
(* Inputs of the aggregator: validated orders.                             *)
(***************************************************************************)
Tea == <<"T", "e", "a">>
Mug == <<"M", "u", "g">>
TeaBag == <<"T", "e", "a", "|", "B", "a", "g">>

Item(name, quantity, unitPrice) ==
    [name |-> name, category |-> Kitchen, unitPrice |-> Num(unitPrice),
     quantity |-> Num(quantity), total |-> Num(quantity * unitPrice)]

\* order date and item lines of the orders in the pool
OrderContents ==
    { [orderDate |-> Jan15, items |-> <<Item(Tea, 1, 10)>>],
      [orderDate |-> Jan20,
       items |-> <<Item(Tea, 2, 15), Item(Mug, 3, 10), Item(Tea, 1, 10)>>],
      [orderDate |-> Feb03, items |-> <<Item(TeaBag, 1, 10)>>] }

StatusSet == {VALID_STATUSES[k] : k \in DOMAIN VALID_STATUSES}

OrderPool ==
    { [id |-> OrderId1, customerName |-> Ann, orderDate |-> c.orderDate, status |-> st,
       items |-> c.items, estimatedDelivery |-> Mar01,
       totalOrderValue |-> Num(0), returnPolicy |-> ThirtyDays] :
      c \in OrderContents, st \in StatusSet }

OrderLists == UNION {[1..n -> OrderPool] : n \in 0..MaxOrders}

InitAgg ==
    /\ orders \in OrderLists
    /\ salesData = NotRun
    /\ firstSalesData = NotRun
    /\ salesMap = <<>>
    /\ callLog = <<>>
    /\ ForecastIdle
    /\ FetchIdle
    /\ UiIdle

\* a caller invokes processOrdersToSalesData(orders)
Aggregate ==
    /\ Len(callLog) < MaxCalls
    /\ salesMap' = SalesMapAfter(salesMap, orders)
    /\ salesData' = Returned(EmitRecords(salesMap'))
    /\ firstSalesData' = IF firstSalesData = NotRun THEN salesData' ELSE firstSalesData
    /\ callLog' = Append(callLog, "own")
    /\ orders' = orders
    /\ UNCHANGED <<forecastVars, fetchVars, uiVars>>

\* a caller invokes processOrdersToSalesData on another list, <<o>>
AggregateOther(o) ==
    /\ Len(callLog) < MaxCalls
    /\ salesMap' = SalesMapAfter(salesMap, <<o>>)
    /\ callLog' = Append(callLog, "other")
    /\ orders' = orders
    /\ UNCHANGED <<salesData, firstSalesData>>
    /\ UNCHANGED <<forecastVars, fetchVars, uiVars>>

NextAgg ==
    \/ Aggregate
    \/ \E o \in OrderPool : AggregateOther(o)

SpecAgg == InitAgg /\ [][NextAgg]_vars

(***************************************************************************)
(* JSON values and the JavaScript conversions applied to them.             *)
(* A value is a record [t, v]: t is the kind, v the content (a number, a   *)
(* string, a sequence of values, or a function from property names to      *)
(* values).                                                                *)
(***************************************************************************)
JNull == [t |-> "null"]
JBool(b) == [t |-> "boolean", v |-> b]
JNum(x) == [t |-> "number", v |-> x]
JStr(cs) == [t |-> "string", v |-> cs]
JArr(es) == [t |-> "array", v |-> es]
JObj(fs) == [t |-> "object", v |-> fs]

\* typeof v
TypeOf(x) ==
    IF x.t \in {"null", "array", "object"} THEN "object" ELSE x.t

\* Array.isArray(v)
IsArray(x) == x.t = "array"

\* x.f on a value that is neither null nor undefined
Get(x, f) ==
    IF x.t = "object" /\ f \in DOMAIN x.v THEN x.v[f] ELSE Undefined

\* x?.f
OptGet(x, f) == IF x.t \in {"null", "undefined"} THEN Undefined ELSE Get(x, f)

\* x ?? d
Nullish(x, d) == IF x.t \in {"null", "undefined"} THEN d ELSE x

Digit(k) == CASE k = 0 -> "0" [] k = 1 -> "1" [] k = 2 -> "2" [] k = 3 -> "3" [] k = 4 -> "4"
              [] k = 5 -> "5" [] k = 6 -> "6" [] k = 7 -> "7" [] k = 8 -> "8" [] k = 9 -> "9"

Digits == {Digit(k) : k \in 0..9}

DigitValue(c) == CHOOSE k \in 0..9 : Digit(k) = c

RECURSIVE NatToString(_)
NatToString(n) == IF n < 10 THEN <<Digit(n)>> ELSE Append(NatToString(n \div 10), Digit(n % 10))

RECURSIVE Pow10(_)
Pow10(k) == IF k = 0 THEN 1 ELSE 10 * Pow10(k - 1)

\* least k <= 9 with d | 10^k (the number of decimals of a decimal literal)
RECURSIVE DecimalPlaces(_, _)
DecimalPlaces(d, k) == IF k >= 9 \/ Pow10(k) % d = 0 THEN k ELSE DecimalPlaces(d, k + 1)

\* a finite number with k decimals: sign, integer part, '.', zero-padded fraction
FiniteToString(x, k) ==
    (IF x[1] < 0 THEN <<"-">> ELSE <<>>)
        \o NatToString(Abs(x[1]) \div x[2])
        \o (IF k = 0 THEN <<>>
            ELSE <<".">>
                 \o [i \in 1..(k - Len(NatToString(((Abs(x[1]) % x[2]) * Pow10(k))
                                                    \div x[2]))) |-> "0"]
                 \o NatToString(((Abs(x[1]) % x[2]) * Pow10(k)) \div x[2]))

\* String(x) of a number written as a decimal literal
NumberToString(x) ==
    IF x = NaN THEN <<"N", "a", "N">>
    ELSE IF ~IsFinite(x)
    THEN (IF x[1] > 0 THEN <<>> ELSE <<"-">>) \o <<"I", "n", "f", "i", "n", "i", "t", "y">>
    ELSE FiniteToString(x, DecimalPlaces(x[2], 0))

Whitespace == {" ", "\t", "\n", "\r"}

RECURSIVE TrimStart(_)
TrimStart(cs) ==
    IF Len(cs) > 0 /\ cs[1] \in Whitespace THEN TrimStart(Tail(cs)) ELSE cs

RECURSIVE TrimEnd(_)
TrimEnd(cs) ==
    IF Len(cs) > 0 /\ cs[Len(cs)] \in Whitespace THEN TrimEnd(SubSeq(cs, 1, Len(cs) - 1)) ELSE cs

\* s.trim()
Trim(cs) == TrimEnd(TrimStart(cs))

AllDigits(cs) == \A i \in DOMAIN cs : cs[i] \in Digits

RECURSIVE DigitsToNat(_)
DigitsToNat(cs) ==
    IF Len(cs) = 0 THEN 0
    ELSE 10 * DigitsToNat(SubSeq(cs, 1, Len(cs) - 1)) + DigitValue(cs[Len(cs)])

\* the value of the digits whole '.' frac, NaN unless both are digits and one is not empty
ParseParts(whole, frac) ==
    IF ~AllDigits(whole) \/ ~AllDigits(frac) \/ Len(whole) + Len(frac) = 0 THEN NaN
    ELSE Norm(DigitsToNat(whole) * Pow10(Len(frac)) + DigitsToNat(frac), Pow10(Len(frac)))

\* index of the first '.', Len + 1 when there is none
DotIndex(body) ==
    IF \E i \in DOMAIN body : body[i] = "."
    THEN CHOOSE i \in DOMAIN body : body[i] = "." /\ \A j \in 1..(i - 1) : body[j] # "."
    ELSE Len(body) + 1

ParseAt(body, dot) == ParseParts(SubSeq(body, 1, dot - 1), SubSeq(body, dot + 1, Len(body)))

ParseUnsigned(body) == ParseAt(body, DotIndex(body))

ParseTrimmed(t) ==
    IF Len(t) = 0 THEN Num(0)
    ELSE IF t[1] = "-" THEN Neg(ParseUnsigned(Tail(t)))
    ELSE IF t[1] = "+" THEN ParseUnsigned(Tail(t))
    ELSE ParseUnsigned(t)

\* StringToNumber that reads the integer prefix only, as parseInt does
StringToNumber_ParseInt(cs) ==
    ParseTrimmed(SubSeq(Trim(cs), 1, DotIndex(Trim(cs)) - 1))

\* Number(s) of a string: blank is 0; an optionally signed decimal literal is its
\* value; anything else is NaN (exponents, hex and 'Infinity' are not modelled)
StringToNumber(cs) == ParseTrimmed(Trim(cs))

RECURSIVE ToStringJS(_)
RECURSIVE JoinFrom(_, _)

\* es.slice(i).join(',') with null and undefined elements printed as ''
JoinFrom(es, i) ==
    IF i > Len(es) THEN <<>>
    ELSE (IF es[i].t \in {"null", "undefined"} THEN <<>> ELSE ToStringJS(es[i]))
         \o (IF i < Len(es) THEN <<",">> ELSE <<>>) \o JoinFrom(es, i + 1)

\* String(x)
ToStringJS(x) ==
    CASE x.t = "string" -> x.v
      [] x.t = "number" -> NumberToString(x.v)
      [] x.t = "boolean" -> (IF x.v THEN <<"t", "r", "u", "e">> ELSE <<"f", "a", "l", "s", "e">>)
      [] x.t = "null" -> <<"n", "u", "l", "l">>
      [] x.t = "undefined" -> <<"u", "n", "d", "e", "f", "i", "n", "e", "d">>
      [] x.t = "array" -> JoinFrom(x.v, 1)
      [] x.t = "object" ->
             <<"[", "o", "b", "j", "e", "c", "t", " ", "O", "b", "j", "e", "c", "t", "]">>

\* Number(x)
ToNumberJS(x) ==
    CASE x.t = "number" -> x.v
      [] x.t = "string" -> StringToNumber(x.v)
      [] x.t = "boolean" -> (IF x.v THEN Num(1) ELSE Num(0))
      [] x.t = "null" -> Num(0)
      [] x.t = "undefined" -> NaN
      [] x.t = "array" -> StringToNumber(ToStringJS(x))
      [] x.t = "object" -> NaN

\* x || 0 for a number x
OrZero(x) == IF x = NaN \/ x = Num(0) THEN Num(0) ELSE x

\* the own enumerable properties copied by {...x}
Spread(x) ==
    CASE x.t = "object" -> x.v
      [] x.t = "array" -> [k \in {ToString(i - 1) : i \in DOMAIN x.v} |->
                              x.v[CHOOSE i \in DOMAIN x.v : ToString(i - 1) = k]]
      [] x.t = "string" -> [k \in {ToString(i - 1) : i \in DOMAIN x.v} |->
                              JStr(<<x.v[CHOOSE i \in DOMAIN x.v : ToString(i - 1) = k]>>)]
      [] OTHER -> [k \in {} |-> Undefined]

\* {...x, f1: v1, ...}: the properties of over replace those spread from x
SpreadWith(x, over) ==
    JObj([k \in DOMAIN Spread(x) \cup DOMAIN over |->
             IF k \in DOMAIN over THEN over[k] ELSE Spread(x)[k]])

(***************************************************************************)
(* normalizeOrder, validateOrderItem, validateOrder.                       *)
(***************************************************************************)
\* the arrow function of raw.items.map: lines 35-42
NormalizeItem(it) ==
    SpreadWith(it,
        [name |-> JStr(ToStringJS(Nullish(OptGet(it, "name"), JStr(<<>>)))),
         category |-> JStr(ToStringJS(Nullish(OptGet(it, "category"), JStr(<<>>)))),
         unitPrice |-> JNum(OrZero(ToNumberJS(OptGet(it, "unitPrice")))),
         quantity |-> JNum(OrZero(ToNumberJS(OptGet(it, "quantity")))),
         total |-> JNum(OrZero(ToNumberJS(OptGet(it, "total"))))])

\* typeof raw.f === 'string' ? raw.f.substring(0, 10) : ''
DateField(raw, f) ==
    IF TypeOf(Get(raw, f)) = "string" THEN JStr(Substring0(Get(raw, f).v, 10)) ELSE JStr(<<>>)

\* normalizeOrder: reading raw.id of null throws a TypeError
normalizeOrder(raw) ==
    IF raw.t \in {"null", "undefined"}
    THEN Thrown("TypeError: Cannot read properties of null")
    ELSE Returned(SpreadWith(raw,
        [id |-> JStr(ToStringJS(Nullish(Get(raw, "id"), JStr(<<>>)))),
         customerName |-> JStr(ToStringJS(Nullish(Get(raw, "customerName"), JStr(<<>>)))),
         status |-> IF TypeOf(Get(raw, "status")) = "string"
                    THEN JStr(Trim(Get(raw, "status").v)) ELSE JStr(<<>>),
         orderDate |-> DateField(raw, "orderDate"),
         estimatedDelivery |-> DateField(raw, "estimatedDelivery"),
         totalOrderValue |-> JNum(OrZero(ToNumberJS(Get(raw, "totalOrderValue")))),
         returnPolicy |-> JStr(ToStringJS(Nullish(Get(raw, "returnPolicy"), JStr(<<>>)))),
         items |-> IF IsArray(Get(raw, "items"))
                   THEN JArr([k \in DOMAIN Get(raw, "items").v |->
                                 NormalizeItem(Get(raw, "items").v[k])])
                   ELSE JArr(<<>>)]))

\* typeof x !== 'string' || !x
NotNonEmptyString(x) == TypeOf(x) # "string" \/ Len(x.v) = 0

\* !obj || typeof obj !== 'object'
NotAnObject(x) == x.t \in {"null", "undefined"} \/ TypeOf(x) # "object"

\* the elements of a sequence of optional messages that are present
RECURSIVE Present(_)
Present(ms) ==
    IF Len(ms) = 0 THEN <<>>
    ELSE (IF ms[1] = "" THEN <<>> ELSE <<ms[1]>>) \o Present(Tail(ms))

Msg(failed, text) == IF failed THEN text ELSE ""

\* { isValid: errors.length === 0, errors }
Verdict(errors) == [isValid |-> Len(errors) = 0, errors |-> errors]

\* validateOrderItem without the check of category
validateOrderItem_NoCategoryCheck(obj) ==
    IF NotAnObject(obj) THEN [isValid |-> FALSE, errors |-> <<"Item is not an object.">>]
    ELSE Verdict(Present(<<
             Msg(NotNonEmptyString(Get(obj, "name")), "Item name is missing or not a string."),
             Msg(TypeOf(Get(obj, "unitPrice")) # "number",
                 "Item unitPrice is missing or not a number."),
             Msg(TypeOf(Get(obj, "quantity")) # "number",
                 "Item quantity is missing or not a number."),
             Msg(TypeOf(Get(obj, "total")) # "number",
                 "Item total is missing or not a number.") >>))

validateOrderItem(obj) ==
    IF NotAnObject(obj) THEN [isValid |-> FALSE, errors |-> <<"Item is not an object.">>]
    ELSE Verdict(Present(<<
             Msg(NotNonEmptyString(Get(obj, "name")), "Item name is missing or not a string."),
             Msg(NotNonEmptyString(Get(obj, "category")),
                 "Item category is missing or not a string."),
             Msg(TypeOf(Get(obj, "unitPrice")) # "number",
                 "Item unitPrice is missing or not a number."),
             Msg(TypeOf(Get(obj, "quantity")) # "number",
                 "Item quantity is missing or not a number."),
             Msg(TypeOf(Get(obj, "total")) # "number",
                 "Item total is missing or not a number.") >>))

\* /^\d{4}-\d{2}-\d{2}$/.test(cs)
IsDate(cs) ==
    /\ Len(cs) = 10
    /\ \A i \in {1, 2, 3, 4, 6, 7, 9, 10} : cs[i] \in Digits
    /\ cs[5] = "-"
    /\ cs[8] = "-"

\* VALID_STATUSES.includes(cs)
IsValidStatus(cs) == \E k \in DOMAIN VALID_STATUSES : VALID_STATUSES[k] = cs

NotADate(x) == TypeOf(x) # "string" \/ ~IsDate(x.v)

\* the messages pushed for order.items: lines 94-105
ItemsErrors(items) ==
    IF ~IsArray(items) \/ Len(items.v) = 0
    THEN <<"Field items is missing, not an array, or empty.">>
    ELSE Present([k \in DOMAIN items.v |->
             Msg(~validateOrderItem(items.v[k]).isValid, "Item at index is invalid")])

validateOrder(obj) ==
    IF NotAnObject(obj) THEN [isValid |-> FALSE, errors |-> <<"Order is not an object.">>]
    ELSE Verdict(
             Present(<<
                 Msg(NotNonEmptyString(Get(obj, "id")), "Field id is missing or not a string."),
                 Msg(NotNonEmptyString(Get(obj, "customerName")),
                     "Field customerName is missing or not a string."),
                 Msg(NotADate(Get(obj, "orderDate")),
                     "Field orderDate is missing or not in YYYY-MM-DD format."),
                 Msg(TypeOf(Get(obj, "status")) # "string",
                     "Field status is missing or not a string."),
                 Msg(TypeOf(Get(obj, "status")) = "string"
                        /\ ~IsValidStatus(Get(obj, "status").v),
                     "Field status has an invalid value") >>)
             \o ItemsErrors(Get(obj, "items"))
             \o Present(<<
                 Msg(NotADate(Get(obj, "estimatedDelivery")),
                     "Field estimatedDelivery is missing or not in YYYY-MM-DD format."),
                 Msg(TypeOf(Get(obj, "totalOrderValue")) # "number",
                     "Field totalOrderValue is missing or not a number."),
                 Msg(NotNonEmptyString(Get(obj, "returnPolicy")),
                     "Field returnPolicy is missing or not a string.") >>))

(***************************************************************************)
(* fetchDataFromUrl.                                                       *)
(***************************************************************************)
MaxReports == 10

\* lines 159-165: the normalized order is kept when valid, else reported (at most
\* MaxReports reports are kept)
Collect(st, normalized, result) ==
    IF result.isValid
    THEN [st EXCEPT !.i = st.i + 1, !.validOrders = Append(st.validOrders, normalized)]
    ELSE IF Len(st.validationErrors) < MaxReports
    THEN [st EXCEPT !.i = st.i + 1,
                    !.validationErrors =
                        Append(st.validationErrors,
                               [itemIndex |-> st.i, errors |-> result.errors])]
    ELSE [st EXCEPT !.i = st.i + 1]

\* lines 157-158 on the outcome n of normalizeOrder(raw): an exception leaves the loop
Validated(st, n) ==
    IF n.kind = "throw" THEN [st EXCEPT !.thrown = n]
    ELSE Collect(st, n.value, validateOrder(n.value))

\* the body of data.forEach for the element at st.i: lines 157-165
FetchStep(st, raw) == Validated(st, normalizeOrder(raw))

\* data.forEach: an exception thrown by the callback ends the loop
RECURSIVE FetchLoop(_, _)
FetchLoop(st, data) ==
    IF st.thrown.kind = "throw" \/ st.i >= Len(data) THEN st
    ELSE FetchLoop(FetchStep(st, data[st.i + 1]), data)

\* lines 168-181 on the state st the loop ends in
BatchOutcome(st, data) ==
    IF st.thrown.kind = "throw" THEN st.thrown
    ELSE IF Len(st.validOrders) = 0 /\ Len(data) > 0
    THEN Thrown("Fetched data, but no valid order objects were found.")
    ELSE Returned(st.validOrders)

\* lines 147-181, on the parsed body
ValidateBatch(data) ==
    IF ~IsArray(data) THEN Thrown("Fetched data is not an array.")
    ELSE BatchOutcome(FetchLoop([i |-> 0, validOrders |-> <<>>, validationErrors |-> <<>>,
                                 thrown |-> NotRun], data.v),
                      data.v)

fetchDataFromUrl(resp) ==
    IF resp.net = "fail" THEN Thrown("Network request failed.")
    ELSE IF ~resp.ok THEN Thrown("Failed to fetch data")
    ELSE IF resp.body.t = "invalid json" THEN Thrown("Failed to parse JSON.")
    ELSE ValidateBatch(resp.body)

(***************************************************************************)
(* Inputs of fetchDataFromUrl.                                             *)
(***************************************************************************)
RawItem(name, quantity, unitPrice, total) ==
    JObj([name |-> JStr(name), category |-> JStr(Kitchen), unitPrice |-> unitPrice,
          quantity |-> quantity, total |-> total])

\* a well-typed order
RawDelivered ==
    JObj([id |-> JStr(OrderId1), customerName |-> JStr(Ann), orderDate |-> JStr(Jan15),
          status |-> JStr(Delivered),
          items |-> JArr(<<RawItem(Tea, JNum(Num(1)), JNum(Num(10)), JNum(Num(10)))>>),
          estimatedDelivery |-> JStr(Jan20), totalOrderValue |-> JNum(Num(10)),
          returnPolicy |-> JStr(ThirtyDays)])

\* an order that is valid once normalized: numeric id, timestamps, padded status,
\* numbers written as strings
RawLoose ==
    JObj([id |-> JNum(Num(7)), customerName |-> JStr(Bob),
          orderDate |-> JStr(Feb03Time), status |-> JStr(ShippedPadded),
          items |-> JArr(<<RawItem(Mug, JStr(<<"2">>), JStr(<<"7", ".", "5">>), JNum(Num(15)))>>),
          estimatedDelivery |-> JStr(Feb09Time), totalOrderValue |-> JStr(<<"1", "5">>),
          returnPolicy |-> JStr(<<"n", "o", "n", "e">>)])

\* invalid elements: fields missing, a wrongly typed field, an items array holding null
RawMissingFields == JObj([id |-> JStr(<<"o", "3">>)])
RawStatusNumber == JObj([RawDelivered.v EXCEPT !.status = JNum(Num(5))])
RawNullItem == JObj([RawDelivered.v EXCEPT !.items = JArr(<<JNull>>)])

\* obj with property f set to v / without property f
WithField(obj, f, v) == JObj([k \in DOMAIN obj.v \cup {f} |-> IF k = f THEN v ELSE obj.v[k]])
Without(obj, f) == JObj([k \in DOMAIN obj.v \ {f} |-> obj.v[k]])

\* RawDelivered with another single item line
WithItem(item) == WithField(RawDelivered, "items", JArr(<<item>>))

\* well-typed orders: every number 0 and an extra property; numbers written as strings
RawZero ==
    WithField(
        WithField(
            WithField(WithItem(RawItem(Tea, JNum(Num(0)), JNum(Num(0)), JNum(Num(0)))),
                      "totalOrderValue", JNum(Num(0))),
            "status", JStr(Cancelled)),
        "notes", JStr(<<"g", "i", "f", "t">>))
RawNumericStrings ==
    WithField(WithItem(RawItem(Mug, JStr(<<"2">>), JStr(<<"7", ".", "5">>), JStr(<<"1", "5">>))),
              "totalOrderValue", JStr(<<"1", "5">>))

\* orders breaking a single validation rule
RawEmptyId == WithField(RawDelivered, "id", JStr(<<>>))
RawNoCustomer == Without(RawDelivered, "customerName")
RawBadDate ==
    WithField(RawDelivered, "orderDate",
              JStr(<<"2", "0", "2", "4", "/", "0", "1", "/", "1", "5">>))
RawBadStatus == WithField(RawDelivered, "status", JStr(<<"L", "o", "s", "t">>))
RawNoItems == WithField(RawDelivered, "items", JArr(<<>>))
RawItemNoCategory ==
    WithItem(JObj([name |-> JStr(Tea), unitPrice |-> JNum(Num(10)), quantity |-> JNum(Num(1)),
                   total |-> JNum(Num(10))]))
RawBadDelivery == WithField(RawDelivered, "estimatedDelivery", JNum(Num(20240120)))
RawNoPolicy == WithField(RawDelivered, "returnPolicy", JNull)

\* Delivered orders whose item quantity is negative, fractional, missing, no number
RawNegativeQuantity == WithItem(RawItem(Tea, JNum(Num(-2)), JNum(Num(10)), JNum(Num(-20))))
RawFractionalQuantity == WithItem(RawItem(Tea, JNum(<<3, 2>>), JNum(Num(10)), JNum(Num(15))))
RawMissingQuantity ==
    WithItem(JObj([name |-> JStr(Tea), category |-> JStr(Kitchen), unitPrice |-> JNum(Num(10)),
                   total |-> JNum(Num(10))]))
RawTextQuantity ==
    WithItem(RawItem(Tea, JStr(<<"a", "b", "c">>), JNum(Num(10)), JNum(Num(10))))

\* the elements a fetched array is made of
RawPool ==
    <<JNull, JNum(Num(5)), JStr(<<"a", "b", "c">>), RawDelivered, RawLoose, RawMissingFields,
      RawStatusNumber, RawNullItem, RawZero, RawNumericStrings, RawEmptyId, RawNoCustomer,
      RawBadDate, RawBadStatus, RawNoItems, RawItemNoCategory, RawBadDelivery, RawNoPolicy,
      RawNegativeQuantity, RawFractionalQuantity, RawMissingQuantity, RawTextQuantity>>

\* a body that is no JSON text
InvalidJson == [t |-> "invalid json"]

\* bodies that are no array
OtherBodies == <<InvalidJson, JNull, JNum(Num(5)), RawDelivered>>

\* the arrays of at most MaxBatch elements of RawPool, as sequences of indices
BatchShapes == UNION {[1..n -> DOMAIN RawPool] : n \in 0..MaxBatch}

BatchOf(shape) == JArr([k \in DOMAIN shape |-> RawPool[shape[k]]])

InitFetch ==
    /\ \/ response = [net |-> "fail", ok |-> FALSE, body |-> JNull]
       \/ response = [net |-> "ok", ok |-> FALSE, body |-> JNull]
       \/ \E k \in DOMAIN OtherBodies :
             response = [net |-> "ok", ok |-> TRUE, body |-> OtherBodies[k]]
       \/ \E shape \in BatchShapes :
             response = [net |-> "ok", ok |-> TRUE, body |-> BatchOf(shape)]
    /\ fetchResult = NotRun
    /\ ForecastIdle
    /\ AggIdle
    /\ UiIdle

\* the caller awaits fetchDataFromUrl(DATA_URL)
Fetch ==
    /\ fetchResult = NotRun
    /\ fetchResult' = fetchDataFromUrl(response)
    /\ UNCHANGED <<response, forecastVars, aggVars, uiVars>>

NextFetch == Fetch

SpecFetch == InitFetch /\ [][NextFetch]_vars

(***************************************************************************)
(* App: the startup load (loadInitialData).                                *)
(***************************************************************************)
\* a message held by a state that is null or a string
Message(text) == [kind |-> "message", text |-> text]

\* a validated JSON item / order read through the OrderItem / Order interface
\* (normalized as Order)
ItemOf(j) ==
    [name |-> j.v.name.v, category |-> j.v.category.v, unitPrice |-> j.v.unitPrice.v,
     quantity |-> j.v.quantity.v, total |-> j.v.total.v]

OrderOf(j) ==
    [id |-> j.v.id.v, customerName |-> j.v.customerName.v, orderDate |-> j.v.orderDate.v,
     status |-> j.v.status.v, items |-> [k \in DOMAIN j.v.items.v |-> ItemOf(j.v.items.v[k])],
     estimatedDelivery |-> j.v.estimatedDelivery.v,
     totalOrderValue |-> j.v.totalOrderValue.v, returnPolicy |-> j.v.returnPolicy.v]

OrdersOf(js) == [k \in DOMAIN js |-> OrderOf(js[k])]

\* loadInitialData whose isDataLoading is reset on success only (no finally)
LoadSettled_NoFinally(st, r) ==
    IF r.kind = "return"
    THEN [orders |-> r.value, salesData |-> processOrdersToSalesData(OrdersOf(r.value)),
          dataError |-> st.dataError, isDataLoading |-> FALSE]
    ELSE [orders |-> st.orders, salesData |-> st.salesData,
          dataError |-> Message(r.error), isDataLoading |-> st.isDataLoading]

\* lines 26-38 on the outcome r of fetchDataFromUrl: the App state after the try,
\* catch and finally blocks
LoadSettled(st, r) ==
    IF r.kind = "return"
    THEN [orders |-> r.value, salesData |-> processOrdersToSalesData(OrdersOf(r.value)),
          dataError |-> st.dataError, isDataLoading |-> FALSE]
    ELSE [orders |-> st.orders, salesData |-> st.salesData,
          dataError |-> Message(r.error), isDataLoading |-> FALSE]

InitApp ==
    /\ \/ response = [net |-> "fail", ok |-> FALSE, body |-> JNull]
       \/ response = [net |-> "ok", ok |-> FALSE, body |-> JNull]
       \/ \E k \in DOMAIN OtherBodies :
             response = [net |-> "ok", ok |-> TRUE, body |-> OtherBodies[k]]
       \/ \E shape \in BatchShapes :
             response = [net |-> "ok", ok |-> TRUE, body |-> BatchOf(shape)]
    /\ fetchResult = NotRun
    /\ AppIdle
    /\ ForecastIdle
    /\ AggIdle
    /\ ForecasterIdle
    /\ ChatIdle

\* the mount effect calls loadInitialData, which runs up to its await (lines 23-26)
StartLoad ==
    /\ loadPc = "mount"
    /\ loadPc' = "awaiting"
    /\ isDataLoading' = TRUE
    /\ dataError' = Null
    /\ UNCHANGED <<appOrders, appSalesData>>
    /\ UNCHANGED <<forecastVars, aggVars, fetchVars, forecasterVars, chatVars>>

\* the promise of fetchDataFromUrl settles and loadInitialData runs to its end
FinishLoad ==
    /\ loadPc = "awaiting"
    /\ loadPc' = "done"
    /\ fetchResult' = fetchDataFromUrl(response)
    /\ LET after == LoadSettled([orders |-> appOrders, salesData |-> appSalesData,
                                 dataError |-> dataError, isDataLoading |-> isDataLoading],
                                fetchResult')
       IN /\ appOrders' = after.orders
          /\ appSalesData' = after.salesData
          /\ dataError' = after.dataError
          /\ isDataLoading' = after.isDataLoading
    /\ UNCHANGED <<response, forecastVars, aggVars, forecasterVars, chatVars>>

NextApp == StartLoad \/ FinishLoad

\* the position of loadInitialData moves on: what every step of NextApp does to
\* loadPc, and possible exactly when a step of NextApp is
LoadAdvances ==
    /\ loadPc # "done"
    /\ loadPc' = IF loadPc = "mount" THEN "awaiting" ELSE "done"

\* the effect runs after the mount and the awaited promise settles
SpecApp == InitApp /\ [][NextApp]_vars /\ WF_loadPc(LoadAdvances)

(***************************************************************************)
(* Forecaster: the analysis requests (runAnalysis).                        *)
(***************************************************************************)
\* the characters of the names and months in use, in code unit order
Alphabet ==
    <<"-", "0", "1", "2", "3", "4", "5", "6", "7", "8", "9",
      "A", "B", "C", "D", "E", "F", "G", "H", "I", "J", "K", "L", "M",
      "N", "O", "P", "Q", "R", "S", "T", "U", "V", "W", "X", "Y", "Z",
      "a", "b", "c", "d", "e", "f", "g", "h", "i", "j", "k", "l", "m",
      "n", "o", "p", "q", "r", "s", "t", "u", "v", "w", "x", "y", "z", "|">>

CodeUnit(c) == CHOOSE k \in DOMAIN Alphabet : Alphabet[k] = c

\* a.localeCompare(b) / the default sort order, for strings over Alphabet: the
\* sign of the first difference, a proper prefix first
RECURSIVE Compare(_, _)
Compare(a, b) ==
    IF Len(a) = 0 THEN (IF Len(b) = 0 THEN 0 ELSE -1)
    ELSE IF Len(b) = 0 THEN 1
    ELSE IF a[1] = b[1] THEN Compare(Tail(a), Tail(b))
    ELSE IF CodeUnit(a[1]) < CodeUnit(b[1]) THEN -1 ELSE 1

\* r put into the sorted records after every record whose month is not later
\* (the sort is stable)
InsertByMonth(sorted, r) ==
    LET before == SelectSeq(sorted, LAMBDA d : Compare(d.month, r.month) <= 0)
        after == SelectSeq(sorted, LAMBDA d : Compare(d.month, r.month) > 0)
    IN before \o <<r>> \o after

\* .sort((a, b) => a.month.localeCompare(b.month)); st holds the index and the sorted part
RECURSIVE SortByMonthLoop(_, _)
SortByMonthLoop(records, st) ==
    IF st.i < Len(records)
    THEN SortByMonthLoop(records,
             [i |-> st.i + 1, sorted |-> InsertByMonth(st.sorted, records[st.i + 1])])
    ELSE st.sorted

SortByMonth(records) == SortByMonthLoop(records, [i |-> 0, sorted |-> <<>>])

\* [...new Set(names)].sort(): the distinct names in ascending order
RECURSIVE SortedNames(_)
SortedNames(names) ==
    IF names = {} THEN <<>>
    ELSE LET least == CHOOSE n \in names : \A m \in names : Compare(n, m) <= 0
         IN <<least>> \o SortedNames(names \ {least})

\* productNames: lines 31-33
ProductNames(sales) == SortedNames({sales[k].productName : k \in DOMAIN sales})

\* historicalUnits: lines 48-52
HistoricalUnits(sales, product) ==
    LET productData == SortByMonth(SelectSeq(sales, LAMBDA d : d.productName = product))
    IN [k \in DOMAIN productData |-> productData[k].unitsSold]

\* Math.round(x): the nearest integer, halves upwards
Round(x) == IF IsFinite(x) THEN Num((2 * x[1] + x[2]) \div (2 * x[2])) ELSE x

NotEnoughData == "Not enough historical data to generate a forecast for this product."
AIServiceFailed == "Failed to get analysis from the AI service."

\* the request awaiting getForecastAnalysis(selectedProduct, historicalUnits,
\* demandForecast, selectedModel): line 64
AnalysisRequest(product, units, demandForecast, model) ==
    [productName |-> product, historicalUnits |-> units, demandForecast |-> demandForecast,
     model |-> model]

\* lines 60-64 and 72-78 on the outcome f of runForecastingModel
Forecasted(st, units, f) ==
    IF f.kind = "throw"
    THEN [st EXCEPT !.isLoading = FALSE, !.error = Message(f.error), !.forecastResult = Null]
    ELSE [st EXCEPT !.isLoading = TRUE, !.error = Null, !.forecastResult = Null,
                    !.inFlight = Append(st.inFlight,
                        AnalysisRequest(st.selectedProduct, units, Round(f.value[1]),
                                        st.selectedModel))]

\* lines 44-58 on historicalUnits, then the try block
Analysed(st, units) ==
    IF Len(units) < 2
    THEN [st EXCEPT !.isLoading = FALSE, !.error = Message(NotEnoughData),
                    !.forecastResult = Null]
    ELSE Forecasted(st, units, runForecastingModel(st.selectedModel, units, 1))

\* runAnalysis up to its await (lines 42-64), called by the effect of lines 81-85 with
\* the selection of st
runAnalysis(st, sales) ==
    IF Len(st.selectedProduct) = 0 THEN st
    ELSE Analysed(st, HistoricalUnits(sales, st.selectedProduct))

\* the continuation that drops the response of a request that is no longer the
\* selection
AnalysisSettled_DiscardStale(st, req, outcome) ==
    IF req.productName # st.selectedProduct \/ req.model # st.selectedModel THEN st
    ELSE IF outcome = "ok"
    THEN [st EXCEPT !.forecastResult =
                        [kind |-> "result", productName |-> req.productName,
                         demandForecast |-> req.demandForecast],
                    !.isLoading = FALSE]
    ELSE [st EXCEPT !.error = Message(AIServiceFailed), !.isLoading = FALSE]

\* runAnalysis after its await (lines 64-78): the AI call of req resolved ("ok") or
\* rejected ("fail")
AnalysisSettled(st, req, outcome) ==
    IF outcome = "ok"
    THEN [st EXCEPT !.forecastResult =
                        [kind |-> "result", productName |-> req.productName,
                         demandForecast |-> req.demandForecast],
                    !.isLoading = FALSE]
    ELSE [st EXCEPT !.error = Message(AIServiceFailed), !.isLoading = FALSE]

\* the state of the component as a record
ForecasterState ==
    [selectedProduct |-> selectedProduct, selectedModel |-> selectedModel,
     forecastResult |-> forecastResult, isLoading |-> isLoading, error |-> error,
     inFlight |-> inFlight]

\* the state variables take the values of the record
ForecasterBecomes(st) ==
    /\ selectedProduct' = st.selectedProduct
    /\ selectedModel' = st.selectedModel
    /\ forecastResult' = st.forecastResult
    /\ isLoading' = st.isLoading
    /\ error' = st.error
    /\ inFlight' = st.inFlight

(***************************************************************************)
(* Inputs of the Forecaster: the sales records it is given.                *)
(***************************************************************************)
Pen == <<"P", "e", "n">>

Jan24 == <<"2", "0", "2", "4", "-", "0", "1">>
Feb24 == <<"2", "0", "2", "4", "-", "0", "2">>
Mar24 == <<"2", "0", "2", "4", "-", "0", "3">>

\* the month text YYYY-MM
MonthText(year, month) ==
    NatToString(year) \o <<"-">> \o (IF month < 10 THEN <<"0">> ELSE <<>>) \o NatToString(month)

SalesRecord(product, month, units) ==
    [productName |-> product, month |-> month, unitsSold |-> Num(units), price |-> Num(2)]

\* Tea sold in three months (given out of order), Mug in one
FewMonths ==
    <<SalesRecord(Tea, Mar24, 11), SalesRecord(Mug, Jan24, 5), SalesRecord(Tea, Jan24, 10),
      SalesRecord(Tea, Feb24, 12)>>

\* Pen sold in two full seasons of months
TwoSeasons ==
    [k \in 1..(2 * SeasonLength) |->
        SalesRecord(Pen, MonthText(2022 + ((k - 1) \div SeasonLength),
                                   ((k - 1) % SeasonLength) + 1), 10)]

Catalogues == {FewMonths, FewMonths \o TwoSeasons}

InitForecaster ==
    /\ fcSalesData \in Catalogues
    /\ selectedProduct = <<>>
    /\ selectedModel = HOLT_WINTERS
    /\ forecastResult = Null
    /\ isLoading = FALSE
    /\ error = Null
    /\ inFlight = <<>>
    /\ selections = 0
    /\ ForecastIdle
    /\ AggIdle
    /\ FetchIdle
    /\ AppIdle
    /\ ChatIdle

\* the effect of lines 35-39 selects the first product, and the effect of lines
\* 81-85 runs the analysis
SelectFirstProduct ==
    /\ Len(ProductNames(fcSalesData)) > 0
    /\ Len(selectedProduct) = 0
    /\ ForecasterBecomes(
          runAnalysis([ForecasterState EXCEPT !.selectedProduct = ProductNames(fcSalesData)[1]],
                      fcSalesData))
    /\ UNCHANGED <<fcSalesData, selections>>
    /\ UNCHANGED <<forecastVars, aggVars, fetchVars, appVars, chatVars>>

\* the user picks another product (line 138), and the effect runs the analysis
SelectProduct(p) ==
    /\ selections < MaxSelections
    /\ Len(selectedProduct) > 0
    /\ p # selectedProduct
    /\ ForecasterBecomes(runAnalysis([ForecasterState EXCEPT !.selectedProduct = p],
                                     fcSalesData))
    /\ selections' = selections + 1
    /\ UNCHANGED fcSalesData
    /\ UNCHANGED <<forecastVars, aggVars, fetchVars, appVars, chatVars>>

\* the user picks another model (line 149), and the effect runs the analysis
SelectModel(m) ==
    /\ selections < MaxSelections
    /\ Len(selectedProduct) > 0
    /\ m # selectedModel
    /\ ForecasterBecomes(runAnalysis([ForecasterState EXCEPT !.selectedModel = m],
                                     fcSalesData))
    /\ selections' = selections + 1
    /\ UNCHANGED fcSalesData
    /\ UNCHANGED <<forecastVars, aggVars, fetchVars, appVars, chatVars>>

\* the AI call of the request at position i settles, and its runAnalysis resumes
SettleAnalysis(i, outcome) ==
    /\ ForecasterBecomes(
          AnalysisSettled([ForecasterState EXCEPT !.inFlight = RemoveAt(inFlight, i)],
                          inFlight[i], outcome))
    /\ UNCHANGED <<fcSalesData, selections>>
    /\ UNCHANGED <<forecastVars, aggVars, fetchVars, appVars, chatVars>>

NextForecaster ==
    \/ SelectFirstProduct
    \/ \E p \in {fcSalesData[k].productName : k \in DOMAIN fcSalesData} : SelectProduct(p)
    \/ \E m \in ForecastingModel : SelectModel(m)
    \/ \E i \in DOMAIN inFlight : \E outcome \in {"ok", "fail"} : SettleAnalysis(i, outcome)

SpecForecaster == InitForecaster /\ [][NextForecaster]_vars

(***************************************************************************)
(* Chatbot: the support chat (handleSendMessage).                          *)
(* A text that the code cuts or trims is a sequence of characters; a text  *)
(* that it only passes on is a sequence of one piece.  The id and the      *)
(* timestamp of a message and the order looked up for the request do not   *)
(* enter the state and are left out.                                       *)
(***************************************************************************)
HistoryLength == 10

Greeting ==
    <<"Hello! I'm your customer support assistant. How can I help you with an order today?">>

Apology ==
    <<"I'm sorry, but I'm having trouble connecting to my brain right now. Please try again in a moment.">>

\* response.text of a call that resolved
AiReply == <<"response.text">>

ChatMessage(sender, text) == [sender |-> sender, text |-> text]

\* s.slice(-n)
SliceFromEnd(s, n) == SubSeq(s, Len(s) - Min(n, Len(s)) + 1, Len(s))

\* the call getCustomerSupportResponse(userInput, order, conversationHistory)
\* awaiting its reply: line 56
SupportRequest(query, history) == [query |-> query, history |-> history]

\* handleSendMessage that accepts a blank input
handleSendMessage_NoBlankCheck(st) ==
    IF st.isLoading THEN st
    ELSE [st EXCEPT !.messages = Append(st.messages, ChatMessage("user", st.userInput)),
                    !.userInput = <<>>,
                    !.isLoading = TRUE,
                    !.inFlight = Append(st.inFlight,
                        SupportRequest(st.userInput,
                                       SliceFromEnd(st.messages, HistoryLength)))]

\* handleSendMessage up to its await (lines 36-56); conversationHistory is cut from
\* the messages of the render the handler belongs to, before the user message
handleSendMessage(st) ==
    IF Len(Trim(st.userInput)) = 0 \/ st.isLoading THEN st
    ELSE [st EXCEPT !.messages = Append(st.messages, ChatMessage("user", st.userInput)),
                    !.userInput = <<>>,
                    !.isLoading = TRUE,
                    !.inFlight = Append(st.inFlight,
                        SupportRequest(st.userInput,
                                       SliceFromEnd(st.messages, HistoryLength)))]

\* handleSendMessage after its await (lines 56-77): the reply resolved ("ok") or
\* getCustomerSupportResponse threw ("fail")
ReplySettled(st, outcome) ==
    [st EXCEPT !.messages = Append(st.messages,
                   ChatMessage("bot", IF outcome = "ok" THEN AiReply ELSE Apology)),
               !.isLoading = FALSE]

\* the state of the component as a record
ChatState ==
    [messages |-> messages, userInput |-> userInput, isLoading |-> chatLoading,
     inFlight |-> chatInFlight]

ChatBecomes(st) ==
    /\ messages' = st.messages
    /\ userInput' = st.userInput
    /\ chatLoading' = st.isLoading
    /\ chatInFlight' = st.inFlight

(***************************************************************************)
(* Inputs of the Chatbot: what the user types.                             *)
(***************************************************************************)
Hi == <<"h", "i">>
WhereIsOrder7 == <<" ", "o", "r", "d", "e", "r", " ", "7", " ">>
Blanks == <<" ", " ">>

TypedInputs == {<<>>, Blanks, Hi, WhereIsOrder7}

InitChat ==
    /\ ChatIdle
    /\ ForecastIdle
    /\ AggIdle
    /\ FetchIdle
    /\ AppIdle
    /\ ForecasterIdle

\* the mount effect of lines 16-25; React runs it before it handles any input event
Greet ==
    /\ Len(messages) = 0
    /\ messages' = <<ChatMessage("bot", Greeting)>>
    /\ UNCHANGED <<userInput, chatLoading, chatInFlight, turns>>
    /\ UNCHANGED <<forecastVars, aggVars, fetchVars, appVars, forecasterVars>>

\* the user edits the input (line 115); the input is disabled while isLoading
\* (line 118)
Type(cs) ==
    /\ Len(messages) > 0
    /\ ~chatLoading
    /\ cs # userInput
    /\ userInput' = cs
    /\ UNCHANGED <<messages, chatLoading, chatInFlight, turns>>
    /\ UNCHANGED <<forecastVars, aggVars, fetchVars, appVars, forecasterVars>>

\* a submit event of the form (line 111) calls handleSendMessage
Submit ==
    /\ Len(messages) > 0
    /\ turns < MaxTurns
    /\ turns' = turns + 1
    /\ ChatBecomes(handleSendMessage(ChatState))
    /\ UNCHANGED <<forecastVars, aggVars, fetchVars, appVars, forecasterVars>>

\* the awaited call settles and handleSendMessage runs to its end
SettleReply(outcome) ==
    /\ Len(chatInFlight) > 0
    /\ ChatBecomes(ReplySettled([ChatState EXCEPT !.inFlight = Tail(chatInFlight)], outcome))
    /\ UNCHANGED turns
    /\ UNCHANGED <<forecastVars, aggVars, fetchVars, appVars, forecasterVars>>

Replies == \E outcome \in {"ok", "fail"} : SettleReply(outcome)

NextChat ==
    \/ Greet
    \/ \E cs \in TypedInputs : Type(cs)
    \/ Submit
    \/ Replies

\* the mount effect runs, and the awaited call of the AI service settles
SpecChat == InitChat /\ [][NextChat]_vars /\ WF_vars(Greet) /\ WF_vars(Replies)

(***************************************************************************)
(* Properties of the forecasting engine.                                   *)
(***************************************************************************)
ForecastDone == fResult # NotRun

\* C1: for every series with fewer than 24 observations and every horizon,
\* runForecastingModel with the Holt-Winters model returns exactly what
\* runForecastingModel with the Holt model returns on the same arguments.
C1_HoltWintersFallbackEqualsHolt ==
    (ForecastDone /\ fModel = HOLT_WINTERS /\ Len(fData) < 24)
        => fResult = runForecastingModel(HOLT, fData, fPeriods)

\* a Holt-Winters call on 12..23 observations (a full season, yet fewer than two) returned
C1_Witness ==
    /\ ForecastDone
    /\ fModel = HOLT_WINTERS
    /\ Len(fData) >= 12
    /\ Len(fData) < 24
    /\ fResult.kind = "return"

\* C2: for every series with fewer than 2 observations Holt's method returns what
\* SES returns: horizon copies of the single observation, or of 0 when the series
\* is empty.
C2_HoltFallbackEqualsSES ==
    (ForecastDone /\ fModel = HOLT /\ Len(fData) < 2)
        => /\ fResult = runForecastingModel(SES, fData, fPeriods)
           /\ fResult.kind = "return"
           /\ fResult.value =
                 [i \in 1..fPeriods |-> IF Len(fData) = 0 THEN Num(0) ELSE fData[1]]

\* a Holt call on a single non-zero observation returned
C2_Witness ==
    /\ ForecastDone
    /\ fModel = HOLT
    /\ Len(fData) = 1
    /\ fData[1] # Num(0)
    /\ fResult.kind = "return"

\* C3: a model identifier that is none of the three ForecastingModel values makes
\* runForecastingModel fail with the 'Unknown forecasting model' error; it never
\* returns a sequence.
C3_UnknownModelThrows ==
    (ForecastDone /\ fModel \notin {SES, HOLT, HOLT_WINTERS})
        => /\ fResult.kind = "throw"
           /\ fResult.error = "Unknown forecasting model"

\* a call with an unknown identifier on a non-empty series has thrown
C3_Witness ==
    /\ ForecastDone
    /\ fModel \notin {SES, HOLT, HOLT_WINTERS}
    /\ Len(fData) > 0
    /\ fResult.kind = "throw"

\* C4: for each of the three models, every series and every horizon >= 1 the
\* returned sequence has exactly horizon elements.
C4_ForecastLengthIsHorizon ==
    (ForecastDone /\ fModel \in {SES, HOLT, HOLT_WINTERS})
        => /\ fResult.kind = "return"
           /\ Len(fResult.value) = fPeriods
           /\ DOMAIN fResult.value = 1..fPeriods

\* a Holt-Winters call on at least 24 observations with a horizon above 1 returned
C4_Witness ==
    /\ ForecastDone
    /\ fModel = HOLT_WINTERS
    /\ Len(fData) >= 24
    /\ fPeriods > 1
    /\ fResult.kind = "return"
    /\ Len(fResult.value) = fPeriods

\* the recurrence of the specification: s[0] = x[0], s[i] = 0.3 x[i] + 0.7 s[i-1]
\* (s extended one element at a time up to the length of x)
RECURSIVE SmoothedUpTo(_, _)
SmoothedUpTo(x, s) ==
    IF Len(s) >= Len(x) THEN s
    ELSE SmoothedUpTo(x,
             Append(s, Add(Mul(<<3, 10>>, x[Len(s) + 1]), Mul(<<7, 10>>, s[Len(s)]))))

SmoothedAt(x, i) == SmoothedUpTo(x, <<x[1]>>)[i + 1]

\* C5: for a non-empty series x SES returns horizon copies of s[n-1], where
\* s[0] = x[0] and s[i] = 0.3 x[i] + 0.7 s[i-1]; [10, 12, 11] gives 10.72
\* (= 268/25); for the empty series it returns horizon copies of 0.
C5_SESIsSmoothedLastValue ==
    (ForecastDone /\ fModel = SES)
        => /\ fResult.kind = "return"
           /\ Len(fData) = 0 => fResult.value = [i \in 1..fPeriods |-> Num(0)]
           /\ Len(fData) > 0 =>
                 fResult.value = [i \in 1..fPeriods |-> SmoothedAt(fData, Len(fData) - 1)]
           /\ (fData = <<Num(10), Num(12), Num(11)>> /\ fPeriods = 1)
                 => fResult.value = << <<268, 25>> >>

\* SES ran on [10, 12, 11] with horizon 1
C5_Witness ==
    /\ ForecastDone
    /\ fModel = SES
    /\ fData = <<Num(10), Num(12), Num(11)>>
    /\ fPeriods = 1
    /\ fResult.kind = "return"

\* the recurrence of Holt's method: level and trend start at x[0] and x[1] - x[0];
\* each further observation gives level' = 0.3 x[i] + 0.7 (level + trend) and then
\* trend' = 0.1 (level' - level) + 0.9 trend, level being the one before the update
RECURSIVE LevelTrendUpTo(_, _)
LevelTrendUpTo(x, lt) ==
    IF lt.seen >= Len(x) THEN lt
    ELSE LevelTrendUpTo(x,
             [seen |-> lt.seen + 1,
              level |-> Add(Mul(<<3, 10>>, x[lt.seen + 1]),
                            Mul(<<7, 10>>, Add(lt.level, lt.trend))),
              trend |-> Add(Mul(<<1, 10>>,
                                Sub(Add(Mul(<<3, 10>>, x[lt.seen + 1]),
                                        Mul(<<7, 10>>, Add(lt.level, lt.trend))),
                                    lt.level)),
                            Mul(<<9, 10>>, lt.trend))])

LevelTrend(x) == LevelTrendUpTo(x, [seen |-> 1, level |-> x[1], trend |-> Sub(x[2], x[1])])

IsLinear(x) == \A i \in 2..Len(x) : Sub(x[i], x[i - 1]) = Sub(x[2], x[1])

\* C15: for n >= 2 observations Holt's method starts with level = x[0] and
\* trend = x[1] - x[0], updates for i = 1..n-1 level' = 0.3 x[i] + 0.7 (level + trend)
\* and trend' = 0.1 (level' - level) + 0.9 trend with the level from before the
\* update, and forecasts level + h trend for h = 1..horizon; so on an exactly linear
\* series x[i] = a + i d it forecasts x[n-1] + h d, and [10, 20, 30, 40] gives 50 for
\* h = 1.
C15_HoltRecurrence ==
    (ForecastDone /\ fModel = HOLT /\ Len(fData) >= 2)
        => /\ fResult.kind = "return"
           /\ fResult.value =
                 [h \in 1..fPeriods |->
                     Add(LevelTrend(fData).level, Mul(Num(h), LevelTrend(fData).trend))]
           /\ IsLinear(fData) =>
                 fResult.value =
                    [h \in 1..fPeriods |->
                        Add(fData[Len(fData)], Mul(Num(h), Sub(fData[2], fData[1])))]
           /\ fData = <<Num(10), Num(20), Num(30), Num(40)>> => fResult.value[1] = Num(50)

\* Holt's method ran on [10, 20, 30, 40] with horizon 1 and returned 50
C15_Witness ==
    /\ ForecastDone
    /\ fModel = HOLT
    /\ fData = <<Num(10), Num(20), Num(30), Num(40)>>
    /\ fPeriods = 1
    /\ fResult.kind = "return"
    /\ fResult.value = <<Num(50)>>

\* C16: for every series of at least 24 non-negative integer unit counts and every
\* horizon >= 1 the Holt-Winters computation divides by no zero and every forecast
\* element is a finite number, also when some observation is 0 and when all are 0.
C16_HoltWintersIsFinite ==
    (ForecastDone /\ fModel = HOLT_WINTERS /\ Len(fData) >= 24)
        => /\ fResult.kind = "return"
           /\ \A h \in DOMAIN fResult.value : IsFinite(fResult.value[h])

\* the same statement for the series without a zero observation
C16_HoldsWithoutZero ==
    (ForecastDone /\ fModel = HOLT_WINTERS /\ Len(fData) >= 24
        /\ \A i \in DOMAIN fData : fData[i] # Num(0))
        => /\ fResult.kind = "return"
           /\ \A h \in DOMAIN fResult.value : IsFinite(fResult.value[h])

(***************************************************************************)
(* Properties of the sales aggregator.                                     *)
(***************************************************************************)
AggDone == salesData # NotRun

RecordSet(records) == {records[k] : k \in DOMAIN records}

NonQualifying(o) == o.status \in {Processing, InTransit, Cancelled, Returned_}

InsertAt(s, i, e) == SubSeq(s, 1, i - 1) \o <<e>> \o SubSeq(s, i, Len(s))

\* C6: only Delivered and Shipped orders count: removing any order with status
\* Processing, In Transit, Cancelled or Returned from the list, or adding one
\* anywhere (whatever items it carries), leaves the set of emitted SalesRecords,
\* with every unitsSold and price, unchanged.
C6_NonQualifyingOrdersIgnored ==
    AggDone =>
        /\ \A i \in DOMAIN orders :
              NonQualifying(orders[i]) =>
                 RecordSet(processOrdersToSalesData(RemoveAt(orders, i)))
                    = RecordSet(salesData.value)
        /\ \A o \in OrderPool : \A i \in 1..(Len(orders) + 1) :
              NonQualifying(o) =>
                 RecordSet(processOrdersToSalesData(InsertAt(orders, i, o)))
                    = RecordSet(salesData.value)

\* a list holding a Cancelled order with items next to a Delivered one was aggregated
C6_Witness ==
    /\ AggDone
    /\ \E i, j \in DOMAIN orders :
          /\ orders[i].status = Cancelled
          /\ Len(orders[i].items) > 0
          /\ orders[j].status = Delivered
    /\ Len(salesData.value) > 0

\* item lines <<order index, item index>> of the Delivered / Shipped orders
QualifyingLines(os) ==
    {l \in UNION {{<<i, j>> : j \in DOMAIN os[i].items} : i \in DOMAIN os} :
        os[l[1]].status \in {Delivered, Shipped}}

\* (item.name, first 7 characters of orderDate) of a line
PairOf(os, l) == <<os[l[1]].items[l[2]].name, SubSeq(os[l[1]].orderDate, 1, 7)>>

Pairs(os) == {PairOf(os, l) : l \in QualifyingLines(os)}

RECURSIVE SumQuantity(_, _)
SumQuantity(os, lines) ==
    IF lines = {} THEN Num(0)
    ELSE LET l == CHOOSE x \in lines : TRUE
         IN Add(os[l[1]].items[l[2]].quantity, SumQuantity(os, lines \ {l}))

\* the records are exactly one per pair of os, each with the pair's name, month and
\* summed quantity
OneRecordPerPair(os, records) ==
    /\ Len(records) = Cardinality(Pairs(os))
    /\ \A p \in Pairs(os) :
          \E k \in DOMAIN records :
             /\ records[k].productName = p[1]
             /\ records[k].month = p[2]
             /\ records[k].unitsSold =
                   SumQuantity(os, {l \in QualifyingLines(os) : PairOf(os, l) = p})

\* C7: processOrdersToSalesData emits exactly one SalesRecord per distinct
\* (item.name, YYYY-MM prefix of orderDate) pair among the item lines of
\* Delivered/Shipped orders, with productName the item name, month the prefix and
\* unitsSold the sum of the quantities of the lines with that pair, for every
\* non-empty item name, names containing '|' included.
C7_OneRecordPerNameAndMonth ==
    AggDone => OneRecordPerPair(orders, salesData.value)

\* the same statement for lists in which no qualifying item name contains '|'
C7_HoldsWithoutSeparator ==
    (AggDone /\ \A p \in Pairs(orders) : \A k \in DOMAIN p[1] : p[1][k] # "|")
        => OneRecordPerPair(orders, salesData.value)

\* C8: aggregation is idempotent and stateless: every call on the same order list
\* returns what the first call returned, whatever calls on other lists came in
\* between, and no call changes the input orders.
C8_AggregationIdempotent ==
    [][ /\ orders' = orders
        /\ (firstSalesData # NotRun) => (salesData' = firstSalesData) ]_vars

\* the list was aggregated, another list was aggregated, then the list again
C8_Witness ==
    /\ callLog = <<"own", "other", "own">>
    /\ salesData # NotRun
    /\ Len(salesData.value) > 0

(***************************************************************************)
(* Properties of fetchDataFromUrl.                                         *)
(***************************************************************************)
FetchDone == fetchResult.kind # "notrun"

\* the body was fetched and parsed
Parsed == response.net = "ok" /\ response.ok /\ response.body.t # "invalid json"

\* the element is a valid order: it can be normalized and its normalized form validates
Acceptable(raw) ==
    /\ normalizeOrder(raw).kind = "return"
    /\ validateOrder(normalizeOrder(raw).value).isValid

\* the normalized forms of the valid elements, in their original order
RECURSIVE ValidOnes(_)
ValidOnes(es) ==
    IF Len(es) = 0 THEN <<>>
    ELSE (IF Acceptable(es[1]) THEN <<normalizeOrder(es[1]).value>> ELSE <<>>)
         \o ValidOnes(Tail(es))

SkipsInvalidElements ==
    /\ fetchResult.kind = "return"
    /\ fetchResult.value = ValidOnes(response.body.v)

\* C9: an invalid element of the fetched array is skipped and never aborts the
\* batch: for every array holding at least one valid order, whatever the other
\* elements are (null, a number, a string, an object with missing or wrongly typed
\* fields, an items array containing null), fetchDataFromUrl succeeds and returns
\* exactly the valid orders in their original relative order.
C9_InvalidElementsSkipped ==
    (FetchDone /\ Parsed /\ IsArray(response.body)
        /\ \E k \in DOMAIN response.body.v : Acceptable(response.body.v[k]))
        => SkipsInvalidElements

\* the same statement for arrays without a null element
C9_HoldsWithoutNull ==
    (FetchDone /\ Parsed /\ IsArray(response.body)
        /\ (\E k \in DOMAIN response.body.v : Acceptable(response.body.v[k]))
        /\ (\A k \in DOMAIN response.body.v : response.body.v[k].t # "null"))
        => SkipsInvalidElements

\* C10: fetchDataFromUrl fails when the parsed JSON is no array, and when the array
\* is non-empty but none of its elements validates; it returns the empty list for
\* the empty array; in every other case it returns a non-empty list in which every
\* element passed validation.
C10_FetchOutcomes ==
    (FetchDone /\ Parsed) =>
        IF ~IsArray(response.body) THEN fetchResult.kind = "throw"
        ELSE IF Len(response.body.v) = 0
        THEN fetchResult.kind = "return" /\ fetchResult.value = <<>>
        ELSE IF \A k \in DOMAIN response.body.v : ~Acceptable(response.body.v[k])
        THEN fetchResult.kind = "throw"
        ELSE /\ fetchResult.kind = "return"
             /\ Len(fetchResult.value) > 0
             /\ \A k \in DOMAIN fetchResult.value : validateOrder(fetchResult.value[k]).isValid

\* the same statement for arrays without a null element
C10_HoldsWithoutNull ==
    (IsArray(response.body) /\ \E k \in DOMAIN response.body.v : response.body.v[k].t = "null")
        \/ C10_FetchOutcomes

(***************************************************************************)
(* Properties of normalizeOrder and validateOrder.                         *)
(***************************************************************************)
\* numeric strings and the numbers they denote
NumericLiterals ==
    { [text |-> <<"0">>, value |-> Num(0)],
      [text |-> <<"2">>, value |-> Num(2)],
      [text |-> <<"1", "5">>, value |-> Num(15)],
      [text |-> <<"7", ".", "5">>, value |-> <<15, 2>>] }

IsNumeric(x) ==
    x.t = "number" \/ (x.t = "string" /\ \E l \in NumericLiterals : l.text = x.v)

NumericValue(x) ==
    IF x.t = "number" THEN x.v ELSE (CHOOSE l \in NumericLiterals : l.text = x.v).value

NonEmptyString(x) == x.t = "string" /\ Len(x.v) > 0

\* cs has the shape of pattern: a digit where pattern has "d", else the same character
Matches(cs, pattern) ==
    /\ Len(cs) = Len(pattern)
    /\ \A i \in DOMAIN pattern :
          IF pattern[i] = "d" THEN cs[i] \in {"0", "1", "2", "3", "4", "5", "6", "7", "8", "9"}
          ELSE cs[i] = pattern[i]

DatePattern == <<"d", "d", "d", "d", "-", "d", "d", "-", "d", "d">>

DateString(x) == x.t = "string" /\ Matches(x.v, DatePattern)

SixStatuses == {Processing, Shipped, InTransit, Delivered, Cancelled, Returned_}

Has(x, f) == x.t = "object" /\ f \in DOMAIN x.v

WellTypedItem(it) ==
    /\ Has(it, "name") /\ NonEmptyString(it.v.name)
    /\ Has(it, "category") /\ NonEmptyString(it.v.category)
    /\ Has(it, "unitPrice") /\ IsNumeric(it.v.unitPrice)
    /\ Has(it, "quantity") /\ IsNumeric(it.v.quantity)
    /\ Has(it, "total") /\ IsNumeric(it.v.total)

\* every field is present and correctly typed
WellTypedOrder(raw) ==
    /\ Has(raw, "id") /\ NonEmptyString(raw.v.id)
    /\ Has(raw, "customerName") /\ NonEmptyString(raw.v.customerName)
    /\ Has(raw, "returnPolicy") /\ NonEmptyString(raw.v.returnPolicy)
    /\ Has(raw, "orderDate") /\ DateString(raw.v.orderDate)
    /\ Has(raw, "estimatedDelivery") /\ DateString(raw.v.estimatedDelivery)
    /\ Has(raw, "status") /\ raw.v.status.t = "string" /\ raw.v.status.v \in SixStatuses
    /\ Has(raw, "items") /\ raw.v.items.t = "array" /\ Len(raw.v.items.v) > 0
    /\ \A k \in DOMAIN raw.v.items.v : WellTypedItem(raw.v.items.v[k])
    /\ Has(raw, "totalOrderValue") /\ IsNumeric(raw.v.totalOrderValue)

SameValue(a, b) == a.t = b.t /\ (a.t \in {"null", "undefined"} \/ a.v = b.v)

\* out has the properties of raw with the same content, numbers as numbers
SameItem(raw, out) ==
    /\ out.t = "object"
    /\ DOMAIN out.v = DOMAIN raw.v
    /\ \A f \in DOMAIN raw.v :
          IF f \in {"unitPrice", "quantity", "total"}
          THEN out.v[f] = JNum(NumericValue(raw.v[f]))
          ELSE SameValue(out.v[f], raw.v[f])

SameContent(raw, out) ==
    /\ out.t = "object"
    /\ DOMAIN out.v = DOMAIN raw.v
    /\ \A f \in DOMAIN raw.v :
          IF f = "totalOrderValue" THEN out.v[f] = JNum(NumericValue(raw.v[f]))
          ELSE IF f = "items"
          THEN /\ out.v[f].t = "array"
               /\ Len(out.v[f].v) = Len(raw.v[f].v)
               /\ \A k \in DOMAIN raw.v[f].v : SameItem(raw.v[f].v[k], out.v[f].v[k])
          ELSE SameValue(out.v[f], raw.v[f])

\* C11: every raw order whose fields are all present and correctly typed is accepted
\* by normalizeOrder followed by validateOrder, and the order returned has the same
\* value in every field: a 0 stays 0 and a numeric string becomes the equal number.
C11_ValidatorRoundTrip ==
    (FetchDone /\ Parsed /\ IsArray(response.body)) =>
        /\ \A k \in DOMAIN response.body.v :
              WellTypedOrder(response.body.v[k]) =>
                 /\ Acceptable(response.body.v[k])
                 /\ SameContent(response.body.v[k], normalizeOrder(response.body.v[k]).value)
        /\ (\A k \in DOMAIN response.body.v : WellTypedOrder(response.body.v[k])) =>
              /\ fetchResult.kind = "return"
              /\ Len(fetchResult.value) = Len(response.body.v)
              /\ \A k \in DOMAIN response.body.v :
                    SameContent(response.body.v[k], fetchResult.value[k])

\* an order of zeros and an order of numeric strings were fetched and both returned
C11_Witness ==
    /\ FetchDone
    /\ fetchResult.kind = "return"
    /\ Len(fetchResult.value) = 2
    /\ Len(response.body.v) = 2
    /\ WellTypedOrder(response.body.v[1])
    /\ WellTypedOrder(response.body.v[2])
    /\ response.body.v[1].v.items.v[1].v.quantity.t = "number"
    /\ response.body.v[1].v.items.v[1].v.quantity.v = Num(0)
    /\ fetchResult.value[1].v.items.v[1].v.quantity = JNum(Num(0))
    /\ response.body.v[2].v.items.v[1].v.unitPrice.t = "string"
    /\ fetchResult.value[2].v.items.v[1].v.unitPrice = JNum(<<15, 2>>)

IsNumber(x) == x.t = "number"

\* the rules on an item line
ItemRules(it) ==
    /\ Has(it, "name") /\ NonEmptyString(it.v.name)
    /\ Has(it, "category") /\ NonEmptyString(it.v.category)
    /\ Has(it, "unitPrice") /\ IsNumber(it.v.unitPrice)
    /\ Has(it, "quantity") /\ IsNumber(it.v.quantity)
    /\ Has(it, "total") /\ IsNumber(it.v.total)

\* the validation rules, all together
OrderRules(n) ==
    /\ Has(n, "id") /\ NonEmptyString(n.v.id)
    /\ Has(n, "customerName") /\ NonEmptyString(n.v.customerName)
    /\ Has(n, "returnPolicy") /\ NonEmptyString(n.v.returnPolicy)
    /\ Has(n, "orderDate") /\ DateString(n.v.orderDate)
    /\ Has(n, "estimatedDelivery") /\ DateString(n.v.estimatedDelivery)
    /\ Has(n, "status") /\ n.v.status.t = "string" /\ n.v.status.v \in SixStatuses
    /\ Has(n, "items") /\ n.v.items.t = "array" /\ Len(n.v.items.v) > 0
    /\ \A k \in DOMAIN n.v.items.v : ItemRules(n.v.items.v[k])
    /\ Has(n, "totalOrderValue") /\ IsNumber(n.v.totalOrderValue)

\* the normalized forms that satisfy the rules, in their original order
RECURSIVE RuleAbiding(_)
RuleAbiding(es) ==
    IF Len(es) = 0 THEN <<>>
    ELSE (IF OrderRules(normalizeOrder(es[1]).value)
          THEN <<normalizeOrder(es[1]).value>> ELSE <<>>)
         \o RuleAbiding(Tail(es))

\* the list validOrders at the end of fetchDataFromUrl (empty when it threw)
ValidList == IF fetchResult.kind = "return" THEN fetchResult.value ELSE <<>>

\* C12: validateOrder accepts an object if and only if it satisfies all the rules
\* together (non-empty string id, customerName, returnPolicy; orderDate and
\* estimatedDelivery of the form dddd-dd-dd; status one of the six values; items a
\* non-empty array of lines with non-empty name and category and numeric unitPrice,
\* quantity, total; numeric totalOrderValue), so the valid list holds exactly the
\* normalized forms that satisfy them; breaking a single rule rejects the order.
C12_ValidIffAllRules ==
    (FetchDone /\ Parsed /\ IsArray(response.body)) =>
        /\ \A k \in DOMAIN response.body.v :
              /\ validateOrder(response.body.v[k]).isValid <=> OrderRules(response.body.v[k])
              /\ normalizeOrder(response.body.v[k]).kind = "return" =>
                    (validateOrder(normalizeOrder(response.body.v[k]).value).isValid
                        <=> OrderRules(normalizeOrder(response.body.v[k]).value))
        /\ (\A k \in DOMAIN response.body.v :
                normalizeOrder(response.body.v[k]).kind = "return")
              => ValidList = RuleAbiding(response.body.v)

\* a valid order and an order whose item lacks a category were fetched; one was kept
C12_Witness ==
    /\ FetchDone
    /\ fetchResult.kind = "return"
    /\ Len(response.body.v) = 2
    /\ Len(fetchResult.value) = 1
    /\ OrderRules(response.body.v[1])
    /\ Has(response.body.v[2], "items")
    /\ response.body.v[2].v.items.t = "array"
    /\ Len(response.body.v[2].v.items.v) = 1
    /\ Has(response.body.v[2].v.items.v[1], "name")
    /\ ~Has(response.body.v[2].v.items.v[1], "category")

(***************************************************************************)
(* Properties of the startup load.                                         *)
(***************************************************************************)
LoadDone == loadPc = "done"

NonNegativeInteger(x) == x[2] = 1 /\ x[1] >= 0

\* C13: along fetched JSON -> normalizeOrder -> validateOrder ->
\* processOrdersToSalesData every emitted SalesRecord has a unitsSold that is a
\* non-negative integer, whatever the fetched array holds (items whose raw quantity
\* is negative, fractional, missing or no number included).
C13_UnitsSoldNonNegativeInteger ==
    LoadDone => \A k \in DOMAIN appSalesData : NonNegativeInteger(appSalesData[k].unitsSold)

\* the quantity of an item line is absent, no number, or a non-negative integer
CountOrAbsent(it) ==
    Has(it, "quantity") =>
        IF it.v.quantity.t = "number" THEN NonNegativeInteger(it.v.quantity.v)
        ELSE it.v.quantity.t = "string" =>
                 (\A l \in NumericLiterals :
                     l.text = it.v.quantity.v => NonNegativeInteger(l.value))

\* the same statement for arrays whose item quantities are non-negative integers
\* where they are numbers
C13_HoldsForCounts ==
    (LoadDone /\ IsArray(response.body)
        /\ \A k \in DOMAIN response.body.v :
              (Has(response.body.v[k], "items") /\ response.body.v[k].v.items.t = "array")
                 => \A i \in DOMAIN response.body.v[k].v.items.v :
                       CountOrAbsent(response.body.v[k].v.items.v[i]))
        => \A k \in DOMAIN appSalesData : NonNegativeInteger(appSalesData[k].unitsSold)

(***************************************************************************)
(* Properties of the Forecaster.                                           *)
(***************************************************************************)
\* C14: the caller can tell which model ran: in every analysis run the model
\* identifier handed to getForecastAnalysis names the model whose formula produced
\* the forecast, also when Holt-Winters is selected for a series of fewer than 24
\* points and Holt's method is substituted.
C14_ReportedModelIsModelRun ==
    \A i \in DOMAIN inFlight :
        inFlight[i].model = ModelRun(inFlight[i].model, inFlight[i].historicalUnits)

\* the same statement for the requests in which no substitution took place
C14_HoldsWithoutFallback ==
    \A i \in DOMAIN inFlight :
        (inFlight[i].model # HOLT_WINTERS
            \/ Len(inFlight[i].historicalUnits) >= MinSeasonalPoints)
        => inFlight[i].model = ModelRun(inFlight[i].model, inFlight[i].historicalUnits)

\* the ForecastResult that the continuation of req stores (lines 66-70)
ResultOf(req) ==
    [kind |-> "result", productName |-> req.productName,
     demandForecast |-> req.demandForecast]

SameResult(a, b) ==
    /\ a.kind = b.kind
    /\ a.kind = "result" => (a.productName = b.productName
                                /\ a.demandForecast = b.demandForecast)

SameMessage(a, b) ==
    /\ a.kind = b.kind
    /\ a.kind = "message" => a.text = b.text

\* the request at position i settles in this step: it resolved and its result is
\* the forecastResult, or it rejected and its message is the error
SettlesAt(i) ==
    /\ inFlight' = RemoveAt(inFlight, i)
    /\ \/ SameResult(forecastResult', ResultOf(inFlight[i])) /\ SameMessage(error', error)
       \/ SameMessage(error', Message(AIServiceFailed))
             /\ SameResult(forecastResult', forecastResult)

\* C17: analysis requests are neither cancelled nor tagged. A step that does not
\* settle a request (a selection change) leaves every request that is awaiting the
\* AI call in flight; any request in flight may settle, whatever the selection is
\* by then, and the one that resolves overwrites forecastResult, so that the result
\* shown after all have resolved is that of the one that resolved last.
C17_LastCompletionWins ==
    [][/\ Len(inFlight') >= Len(inFlight)
             => SubSeq(inFlight', 1, Len(inFlight)) = inFlight
       /\ Len(inFlight') < Len(inFlight)
             => \E i \in DOMAIN inFlight : SettlesAt(i)]_vars

\* Tea, then Pen were selected; the request for Pen resolved first and the one for
\* Tea last: the result shown is that of Tea while Pen is selected
C17_Witness ==
    /\ selections = 2
    /\ inFlight = <<>>
    /\ selectedProduct = Pen
    /\ error.kind = "null"
    /\ forecastResult.kind = "result"
    /\ forecastResult.productName = Tea
    /\ forecastResult.productName # selectedProduct

\* C18: isLoading is true in every state in which an analysis request is awaiting
\* its AI response, and forecastResult and error are never both non-null.
C18_LoadingWhileAwaiting ==
    /\ Len(inFlight) > 0 => isLoading
    /\ ~(forecastResult.kind # "null" /\ error.kind # "null")

\* the same statement for the states reached without a selection change made
\* while a request was awaiting
C18_HoldsForOneRequest ==
    (selections = 0)
        => /\ Len(inFlight) > 0 => isLoading
           /\ ~(forecastResult.kind # "null" /\ error.kind # "null")

(***************************************************************************)
(* Properties of the startup load, continued.                              *)
(***************************************************************************)
\* a step of the load fails: transport, non-2xx status, JSON parse, not an array,
\* no valid record in a non-empty array
LoadFailed ==
    \/ response.net = "fail"
    \/ ~response.ok
    \/ response.body.t = "invalid json"
    \/ ~IsArray(response.body)
    \/ Len(response.body.v) > 0 /\ Len(ValidList) = 0

\* C19: the startup load runs once and always finishes: isDataLoading becomes
\* false, and stays so, whether the fetch succeeds or fails. After a failed step
\* dataError is a message and orders and salesData are empty; after a success
\* dataError is null, orders is the list that fetchDataFromUrl returned and
\* salesData is processOrdersToSalesData of that list. The load is started from
\* the mount only, so that there is no retry.
C19_StartupLoadFinishes ==
    /\ <>[](~isDataLoading)
    /\ [](LoadDone =>
             IF LoadFailed
             THEN /\ dataError.kind = "message"
                  /\ fetchResult.kind = "throw"
                  /\ dataError.text = fetchResult.error
                  /\ Len(appOrders) = 0
                  /\ Len(appSalesData) = 0
             ELSE /\ dataError.kind = "null"
                  /\ fetchResult.kind = "return"
                  /\ appOrders = fetchResult.value
                  /\ appSalesData = processOrdersToSalesData(OrdersOf(appOrders)))
    /\ [][/\ loadPc' = "awaiting" => loadPc = "mount"
          /\ loadPc = "done" => UNCHANGED appVars]_vars

\* the load succeeded and gave sales records
C19_Witness ==
    /\ LoadDone
    /\ ~isDataLoading
    /\ ~LoadFailed
    /\ dataError.kind = "null"
    /\ Len(appOrders) > 0
    /\ Len(appSalesData) > 0

(***************************************************************************)
(* Properties of the Chatbot.                                              *)
(***************************************************************************)
Blank(cs) == Len(Trim(cs)) = 0

\* the greeting comes first, then user and bot messages take turns
TakesTurns ==
    \A k \in DOMAIN messages :
        /\ messages[k].sender = (IF k % 2 = 1 THEN "bot" ELSE "user")
        /\ k = 1 => messages[k].text = Greeting
        /\ (k > 1 /\ k % 2 = 1) => messages[k].text \in {AiReply, Apology}
        /\ k % 2 = 0 => ~Blank(messages[k].text)

\* the request in flight belongs to the user message that is last, and its history
\* is the last HistoryLength messages before that one
HistoryPrecedes ==
    \A i \in DOMAIN chatInFlight :
        /\ Len(messages) > 1
        /\ messages[Len(messages)].sender = "user"
        /\ messages[Len(messages)].text = chatInFlight[i].query
        /\ Len(chatInFlight[i].history) = Min(HistoryLength, Len(messages) - 1)
        /\ \A k \in DOMAIN chatInFlight[i].history :
              chatInFlight[i].history[k] =
                  messages[Len(messages) - 1 - Len(chatInFlight[i].history) + k]

AwaitingReply == Len(messages) > 0 /\ messages[Len(messages)].sender = "user"

\* C20: a submit event is ignored while isLoading is true or the input is blank,
\* and an accepted one appends the user message and starts one request, so that at
\* most one request is in flight; the messages are the greeting followed by user
\* and bot messages in turn, the bot message being the AI reply or the fixed
\* apology; the request carries at most the 10 most recent messages before the
\* new user message; every accepted user message is eventually answered and
\* isLoading returns to false.
C20_OneReplyPerMessage ==
    /\ [](Len(chatInFlight) <= 1)
    /\ [](chatLoading <=> Len(chatInFlight) = 1)
    /\ [](chatLoading <=> AwaitingReply)
    /\ []TakesTurns
    /\ []HistoryPrecedes
    /\ [][(turns' # turns /\ (chatLoading \/ Blank(userInput)))
             => UNCHANGED <<messages, userInput, chatLoading, chatInFlight>>]_vars
    /\ [][(turns' # turns /\ ~chatLoading /\ ~Blank(userInput))
             => /\ messages' = Append(messages, ChatMessage("user", userInput))
                /\ Len(chatInFlight') = 1
                /\ chatLoading']_vars
    /\ [][Len(chatInFlight') < Len(chatInFlight)
             => /\ Len(messages') = Len(messages) + 1
                /\ messages'[Len(messages')].sender = "bot"
                /\ ~chatLoading']_vars
    /\ (AwaitingReply ~> ~AwaitingReply)
    /\ (chatLoading ~> ~chatLoading)

\* the sixth accepted message: eleven messages precede it and the request carries
\* the last ten of them
C20_Witness ==
    /\ Len(chatInFlight) = 1
    /\ chatLoading
    /\ Len(messages) = HistoryLength + 2
    /\ Len(chatInFlight[1].history) = HistoryLength
    /\ chatInFlight[1].history[1] = messages[2]
    /\ \E k \in DOMAIN messages : messages[k].text = Apology

====
